---- MODULE Spec2Model ----
(***************************************************************************)
(* A model of the vector search segment of rosharma719/vectordb: the HNSW  *)
(* index (src/src/vector/hnsw.rs), the in-place filtered search            *)
(* (src/src/vector/in_place.rs), the payload model, filter evaluator and   *)
(* inverted payload index (src/src/utils/payload.rs,                       *)
(* src/src/payload_storage/), and the Segment coordinator                  *)
(* (src/src/segment/segment.rs).                                           *)
(*                                                                         *)
(* Conventions.                                                            *)
(*  - Vectors are sequences of integers.  All three metrics are exact on   *)
(*    the vectors used: with Dim = 1 every sum of squares is a perfect     *)
(*    square, so sqrt and the L2 normalisation are computed exactly.       *)
(*    Where the rounding of f32 matters, the L2 normalisation of vectors   *)
(*    of dimension FDim is computed bit-exactly (maybe_normalize_f32,      *)
(*    SpecF32).                                                            *)
(*  - A HashMap is a function whose DOMAIN is its key set; a Vec is a      *)
(*    sequence; an Option is the empty tuple None or the tuple Some(x).    *)
(*  - Rust's std HashMap/HashSet iteration order and the order in which a  *)
(*    BinaryHeap yields elements of equal priority are not fixed by the    *)
(*    source.  Every operation takes a parameter ord, a sequence of point  *)
(*    ids without repetition: iteration visits ids in the order of ord and *)
(*    ties between equal sort keys are broken by position in ord.  The     *)
(*    actions draw ord nondeterministically.  korder plays the same role   *)
(*    for the iteration order over the field names of a payload.           *)
(*  - The random level of assign_random_level is an input of the action.   *)
(***************************************************************************)
EXTENDS Integers, Sequences, FiniteSets, TLC

\* Option<T>: None, or Some(x)
None == <<>>
Some(x) == <<x>>
Unwrap(o) == o[1]

(***************************************************************************)
(* Bounds of the model and parameters of the index under test.             *)
(***************************************************************************)
\* the number of points a segment is given (the ids 1..MaxPoints)
MaxPoints == 2

\* HNSWIndex::new(metric, m, ef, max_level_cap, dim)
M == 2
Ef == 2
MaxLevelCap == 1
Dim == 1

\* step cap of greedy_search_layer
GreedyMaxSteps == 1000

\* compaction thresholds of Segment::delete; the ratio 0.25 is RatioNum/RatioDen
MIN_DELETIONS_BEFORE_PURGE == 100
MaxDeletionRatioNum == 1
MaxDeletionRatioDen == 4

Metrics == {"Euclidean", "Cosine", "Dot"}

(***************************************************************************)
(* Results.                                                                *)
(***************************************************************************)
Ok(v) == [ok |-> TRUE, val |-> v]
Err(e) == [ok |-> FALSE, err |-> e]
VectorLengthMismatch(expected, actual) ==
  [kind |-> "VectorLengthMismatch", expected |-> expected, actual |-> actual]
InvalidPayload == [kind |-> "InvalidPayload"]
SearchError == [kind |-> "SearchError"]

(***************************************************************************)
(* Sequence and order helpers.                                             *)
(***************************************************************************)
Range(s) == {s[i] : i \in 1..Len(s)}

Contains(s, x) == \E i \in 1..Len(s) : s[i] = x

\* fault: a truncate that keeps the whole list
TakeAll(s, n) == s

\* Vec::truncate / Iterator::take
Take(s, n) == IF Len(s) <= n THEN s ELSE SubSeq(s, 1, n)

\* all orders in which a hash container holding the elements S may be iterated
Perms(S) ==
  {f \in [1..Cardinality(S) -> S] : \A i, j \in 1..Cardinality(S) : f[i] = f[j] => i = j}

\* position of id in the iteration order; ids outside ord come last, by id
Rank(ord, id) ==
  IF Contains(ord, id) THEN CHOOSE i \in 1..Len(ord) : ord[i] = id
  ELSE Len(ord) + id

\* the elements of S in iteration order
InOrder(S, ord) ==
  LET ids == SelectSeq(ord, LAMBDA x : x \in S)
      Rest(T) == IF T = {} THEN <<>>
                 ELSE SelectSeq([i \in 1..(CHOOSE y \in T : \A z \in T : z <= y) |-> i],
                                LAMBDA x : x \in T)
  IN ids \o Rest(S \ Range(ids))

\* HashMap restricted to a key set
Restrict(f, S) == [x \in S |-> f[x]]

(***************************************************************************)
(* Distance kernels and the score normaliser.                              *)
(***************************************************************************)
RECURSIVE SumSeq(_)
SumSeq(s) == IF s = <<>> THEN 0 ELSE Head(s) + SumSeq(Tail(s))

DotProduct(a, b) == SumSeq([i \in 1..Len(a) |-> a[i] * b[i]])

\* f32::sqrt, exact on the perfect squares the model's vectors produce
ISqrt(n) == CHOOSE r \in 0..n : r * r <= n /\ (r + 1) * (r + 1) > n

L2Norm(a) == ISqrt(DotProduct(a, a))

\* The metric value between two equal-length vectors: Euclidean distance,
\* cosine distance 1 - a.b / (|a| |b| + 1e-10), raw dot product.  With a zero
\* vector the quotient is 0 / 1e-10 = 0; otherwise the f32 sum |a| |b| + 1e-10
\* rounds to |a| |b|.
score(a, b, metric) ==
  CASE metric = "Euclidean" ->
         ISqrt(SumSeq([i \in 1..Len(a) |-> (a[i] - b[i]) * (a[i] - b[i])]))
    [] metric = "Cosine" ->
         IF L2Norm(a) * L2Norm(b) = 0 THEN 1
         ELSE 1 - (DotProduct(a, b) \div (L2Norm(a) * L2Norm(b)))
    [] metric = "Dot" -> DotProduct(a, b)

normalize_score(metric, raw) ==
  IF metric = "Dot" THEN 0 - raw ELSE raw

maybe_normalize(metric, vec) ==
  IF metric = "Cosine"
  THEN LET norm == L2Norm(vec)
       IN IF norm = 0 THEN vec ELSE [i \in 1..Len(vec) |-> vec[i] \div norm]
  ELSE vec

(***************************************************************************)
(* The L2 normalisation in f32 arithmetic.  Vector is Vec<f32>: on vectors *)
(* of more than one dimension the square root and the quotients round.     *)
(* An f32 is modelled bit-exactly as sign, 24-bit significand and          *)
(* exponent, (-1)^neg * man * 2^exp with man = 0 or 2^23 <= man < 2^24,    *)
(* with IEEE 754 round-to-nearest, ties-to-even.  The inputs are small     *)
(* integers, so that every intermediate value is zero or a normal number.  *)
(***************************************************************************)
F32(neg, man, exp) == [neg |-> neg, man |-> man, exp |-> exp]

F32Zero == F32(FALSE, 0, 0)

\* the number of binary digits of m, 0 < m < 2^30
BitLen(m) == CHOOSE k \in 1..30 : 2^(k - 1) <= m /\ m < 2^k

\* the f32 nearest to (-1)^neg * (m + f) * 2^e, where 0 < f < 1 if sticky and
\* f = 0 if not; an m of more than 24 digits has at least 25 if sticky
F32Round(neg, m, e, sticky) ==
  IF m = 0 THEN F32Zero
  ELSE LET k == BitLen(m) - 24
           q == m \div 2^k
           r == m % 2^k
           up == r > 2^(k - 1) \/ (r = 2^(k - 1) /\ (sticky \/ q % 2 = 1))
       IN IF k <= 0 THEN F32(neg, m * 2^(0 - k), e + k)
          ELSE IF up /\ q + 1 = 2^24 THEN F32(neg, 2^23, e + k + 1)
          ELSE F32(neg, IF up THEN q + 1 ELSE q, e + k)

\* an integer literal as f32
F32FromInt(n) == F32Round(n < 0, IF n < 0 THEN 0 - n ELSE n, 0, FALSE)

\* x * y: the 48-digit product of the significands is hi * 2^24 + lo
F32Mul(a, b) ==
  IF a.man = 0 \/ b.man = 0 THEN F32Zero
  ELSE LET ah == a.man \div 4096
           al == a.man % 4096
           bh == b.man \div 4096
           bl == b.man % 4096
           mid == ah * bl + al * bh
           lo == (mid % 4096) * 4096 + al * bl
           hi == ah * bh + mid \div 4096 + lo \div 2^24
       IN F32Round(a.neg # b.neg, hi * 4 + (lo % 2^24) \div 2^22,
                   a.exp + b.exp + 22, lo % 2^22 # 0)

\* x + y for operands of the same sign
F32Add(a, b) ==
  IF a.man = 0 THEN b
  ELSE IF b.man = 0 THEN a
  ELSE LET big == IF a.exp >= b.exp THEN a ELSE b
           small == IF a.exp >= b.exp THEN b ELSE a
           d == big.exp - small.exp
       IN IF d > 25 THEN big
          ELSE F32Round(big.neg, big.man * 4 + (small.man * 4) \div 2^d,
                        big.exp - 2, (small.man * 4) % 2^d # 0)

\* the integer square root of X * 2^24, two binary digits of the radicand at
\* a time from digit pair i down; X < 2^26
RECURSIVE SqrtDigits(_, _, _, _)
SqrtDigits(X, i, root, rem) ==
  IF i < 0 THEN [root |-> root, rem |-> rem]
  ELSE LET r == rem * 4 + (IF i >= 12 THEN (X \div 4^(i - 12)) % 4 ELSE 0)
       IN IF r >= root * 4 + 1
          THEN SqrtDigits(X, i - 1, root * 2 + 1, r - (root * 4 + 1))
          ELSE SqrtDigits(X, i - 1, root * 2, r)

\* f32::sqrt of a >= 0
F32Sqrt(a) ==
  IF a.man = 0 THEN a
  ELSE LET odd == a.exp % 2 = 1
           E == IF odd THEN a.exp - 1 ELSE a.exp - 2
           s == SqrtDigits(IF odd THEN a.man * 2 ELSE a.man * 4, 24, 0, 0)
       IN F32Round(FALSE, s.root, (E - 24) \div 2, s.rem # 0)

\* n more binary digits of the quotient q of a long division by d, from the
\* remainder r
RECURSIVE DivDigits(_, _, _, _)
DivDigits(r, d, q, n) ==
  IF n = 0 THEN [q |-> q, r |-> r]
  ELSE IF 2 * r >= d THEN DivDigits(2 * r - d, d, 2 * q + 1, n - 1)
  ELSE DivDigits(2 * r, d, 2 * q, n - 1)

\* x / y, y # 0
F32Div(a, b) ==
  IF a.man = 0 THEN a
  ELSE LET s == DivDigits(a.man % b.man, b.man, a.man \div b.man, 25)
       IN F32Round(a.neg # b.neg, s.q, a.exp - b.exp - 25, s.r # 0)

\* vec.iter().map(|x| x * x).sum::<f32>()
RECURSIVE F32SumSquares(_, _)
F32SumSquares(vec, acc) ==
  IF vec = <<>> THEN acc
  ELSE F32SumSquares(Tail(vec), F32Add(acc, F32Mul(Head(vec), Head(vec))))

\* HNSWIndex::maybe_normalize under Cosine, on a vector of f32
maybe_normalize_f32(vec) ==
  LET scale(norm) ==
        IF norm.man = 0 THEN vec ELSE [i \in 1..Len(vec) |-> F32Div(vec[i], norm)]
  IN scale(F32Sqrt(F32SumSquares(vec, F32Zero)))

(***************************************************************************)
(* Payload values and payload records.  A PayloadValue is [tag, v]; the    *)
(* content of a Str is its sequence of character codes, of a list the      *)
(* sequence of its elements.  A Payload is a function from field names.    *)
(***************************************************************************)
PInt(n) == [tag |-> "Int", v |-> n]
PFloat(n) == [tag |-> "Float", v |-> n]
PStr(s) == [tag |-> "Str", v |-> s]
PBool(b) == [tag |-> "Bool", v |-> b]
PListInt(l) == [tag |-> "ListInt", v |-> l]
PListStr(l) == [tag |-> "ListStr", v |-> l]

\* derived PartialEq of PayloadValue
ValEq(a, b) == a.tag = b.tag /\ a.v = b.v

\* lexicographic order of str
RECURSIVE StrLt(_, _)
StrLt(a, b) ==
  IF b = <<>> THEN FALSE
  ELSE IF a = <<>> THEN TRUE
  ELSE IF Head(a) # Head(b) THEN Head(a) < Head(b)
  ELSE StrLt(Tail(a), Tail(b))

\* Option<bool>: None when the tags differ or the op is undefined for the tag
compare_scalar(value, op, other) ==
  IF value.tag # other.tag THEN None
  ELSE IF value.tag \in {"Int", "Float"} THEN
    Some(CASE op = "Eq" -> value.v = other.v
           [] op = "Neq" -> value.v # other.v
           [] op = "Lt" -> value.v < other.v
           [] op = "Lte" -> value.v <= other.v
           [] op = "Gt" -> value.v > other.v
           [] op = "Gte" -> value.v >= other.v)
  ELSE IF value.tag = "Str" THEN
    Some(CASE op = "Eq" -> value.v = other.v
           [] op = "Neq" -> value.v # other.v
           [] op = "Lt" -> StrLt(value.v, other.v)
           [] op = "Lte" -> StrLt(value.v, other.v) \/ value.v = other.v
           [] op = "Gt" -> StrLt(other.v, value.v)
           [] op = "Gte" -> StrLt(other.v, value.v) \/ value.v = other.v)
  ELSE IF value.tag = "Bool" THEN
    CASE op = "Eq" -> Some(value.v = other.v)
      [] op = "Neq" -> Some(value.v # other.v)
      [] OTHER -> None
  ELSE None

compare_field(payload, field, op, other) ==
  IF field \notin DOMAIN payload THEN Err(InvalidPayload)
  ELSE LET value == payload[field] IN
    IF value.tag = "ListStr" /\ other.tag = "ListStr" THEN
      CASE op = "Eq" -> Ok(value.v = other.v)
        [] op = "Neq" -> Ok(value.v # other.v)
        [] OTHER -> Err(InvalidPayload)
    ELSE IF value.tag = "ListStr" /\ other.tag = "Str" THEN
      CASE op = "Eq" -> Ok(Contains(value.v, other.v))
        [] op = "Neq" -> Ok(~Contains(value.v, other.v))
        [] OTHER -> Err(InvalidPayload)
    ELSE LET result == compare_scalar(value, op, other)
         IN IF result = None THEN Err(InvalidPayload) ELSE Ok(Unwrap(result))

(***************************************************************************)
(* Filter expressions.                                                     *)
(***************************************************************************)
Match(key, value) == [type |-> "Match", key |-> key, value |-> value]
Compare(key, op, value) == [type |-> "Compare", key |-> key, op |-> op, value |-> value]
And(conds) == [type |-> "And", conds |-> conds]
Or(conds) == [type |-> "Or", conds |-> conds]
Not(inner) == [type |-> "Not", inner |-> inner]

RECURSIVE evaluate_filter(_, _)
RECURSIVE EvalAnd(_, _)
RECURSIVE EvalOr(_, _)
evaluate_filter(filter, payload) ==
  CASE filter.type = "Match" ->
         IF filter.key \in DOMAIN payload
         THEN Ok(ValEq(payload[filter.key], filter.value))
         ELSE Ok(FALSE)
    [] filter.type = "Compare" ->
         compare_field(payload, filter.key, filter.op, filter.value)
    [] filter.type = "And" -> EvalAnd(filter.conds, payload)
    [] filter.type = "Or" -> EvalOr(filter.conds, payload)
    [] filter.type = "Not" ->
         LET result == evaluate_filter(filter.inner, payload)
         IN IF result.ok THEN Ok(~result.val) ELSE result

\* an And that skips a condition whose evaluation fails
RECURSIVE EvalAndSkippingErrors(_, _)
EvalAndSkippingErrors(conds, payload) ==
  IF conds = <<>> THEN Ok(TRUE)
  ELSE LET r == evaluate_filter(Head(conds), payload)
       IN IF r.ok /\ ~r.val THEN Ok(FALSE)
          ELSE EvalAndSkippingErrors(Tail(conds), payload)

EvalAnd(conds, payload) ==
  IF conds = <<>> THEN Ok(TRUE)
  ELSE LET r == evaluate_filter(Head(conds), payload)
       IN IF ~r.ok THEN r
          ELSE IF ~r.val THEN Ok(FALSE)
          ELSE EvalAnd(Tail(conds), payload)

\* fault: an Or that evaluates every condition before it decides
EvalOrEager(conds, payload) ==
  LET results == [j \in DOMAIN conds |-> evaluate_filter(conds[j], payload)]
      failed == {j \in DOMAIN conds : ~results[j].ok}
  IN IF failed # {} THEN results[CHOOSE j \in failed : \A k \in failed : j <= k]
     ELSE Ok(\E j \in DOMAIN conds : results[j].val)

EvalOr(conds, payload) ==
  IF conds = <<>> THEN Ok(FALSE)
  ELSE LET r == evaluate_filter(Head(conds), payload)
       IN IF ~r.ok THEN r
          ELSE IF r.val THEN Ok(TRUE)
          ELSE EvalOr(Tail(conds), payload)

(***************************************************************************)
(* Inverted payload index: field -> value -> set of ids.                   *)
(***************************************************************************)
\* fault: a list of Str is indexed as the scalars are
is_indexable_or_list(value) == value.tag \in {"Int", "Float", "Str", "Bool", "ListStr"}

is_indexable(value) == value.tag \in {"Int", "Float", "Str", "Bool"}

IndexableKeys(payload) == {k \in DOMAIN payload : is_indexable(payload[k])}

\* fault: an insert that takes the id out of an id set that holds it
PayloadIndexInsertToggling(index, point_id, payload) ==
  [k \in DOMAIN index \cup IndexableKeys(payload) |->
     LET value_map == IF k \in DOMAIN index THEN index[k] ELSE <<>>
     IN IF k \in IndexableKeys(payload)
        THEN LET value == payload[k]
                 id_set == IF value \in DOMAIN value_map THEN value_map[value] ELSE {}
             IN [x \in DOMAIN value_map \cup {value} |->
                   IF x # value THEN value_map[x]
                   ELSE IF point_id \in id_set THEN id_set \ {point_id}
                   ELSE id_set \cup {point_id}]
        ELSE value_map]

\* PayloadIndex::insert; the fields of a payload are distinct, so the order in
\* which they are visited does not matter
PayloadIndexInsert(index, point_id, payload) ==
  [k \in DOMAIN index \cup IndexableKeys(payload) |->
     LET value_map == IF k \in DOMAIN index THEN index[k] ELSE <<>>
     IN IF k \in IndexableKeys(payload)
        THEN LET value == payload[k]
                 id_set == IF value \in DOMAIN value_map THEN value_map[value] ELSE {}
             IN [x \in DOMAIN value_map \cup {value} |->
                   IF x = value THEN id_set \cup {point_id} ELSE value_map[x]]
        ELSE value_map]

\* fault: a remove that leaves an emptied id set in the value map
RemoveKeepingEmptySet(value_map, point_id, value) ==
  IF value \in DOMAIN value_map
  THEN [value_map EXCEPT ![value] = @ \ {point_id}]
  ELSE value_map

\* the value map of one field after PayloadIndex::remove visited it
RemoveFromValueMap(value_map, point_id, value) ==
  IF value \in DOMAIN value_map
  THEN LET id_set == value_map[value] \ {point_id}
       IN IF id_set = {}
          THEN Restrict(value_map, DOMAIN value_map \ {value})
          ELSE [value_map EXCEPT ![value] = id_set]
  ELSE value_map

\* fault: a remove that leaves the index as it is
PayloadIndexKept(index, point_id, payload) == index

PayloadIndexRemove(index, point_id, payload) ==
  LET touched == IndexableKeys(payload) \cap DOMAIN index
      after == [k \in DOMAIN index |->
                  IF k \in touched
                  THEN RemoveFromValueMap(index[k], point_id, payload[k])
                  ELSE index[k]]
  IN Restrict(after, {k \in DOMAIN index : k \notin touched \/ DOMAIN after[k] # {}})

\* Option<&HashSet<PointId>>
query_exact(index, key, value) ==
  IF ~is_indexable(value) THEN None
  ELSE IF key \notin DOMAIN index THEN None
  ELSE IF value \notin DOMAIN index[key] THEN None
  ELSE Some(index[key][value])

all_for_key(index, key) ==
  IF key \notin DOMAIN index THEN None
  ELSE Some(UNION {index[key][v] : v \in DOMAIN index[key]})

(***************************************************************************)
(* HNSW index.  The parameters m, ef, max_level_cap and dim of the struct  *)
(* are the definitions M, Ef, MaxLevelCap and Dim.                         *)
(***************************************************************************)
HNSWIndexNew(metric) ==
  [layers |-> <<>>, vectors |-> <<>>, levels |-> <<>>, entry_point |-> None,
   metric |-> metric, current_max_level |-> 0, deleted |-> {}]

\* Result<(), DBError> of a method taking &mut self: the index as the call left it
HOk(h) == [ok |-> TRUE, h |-> h]
HErr(h, e) == [ok |-> FALSE, h |-> h, err |-> e]

ScoredPoint(id, raw, key) == [id |-> id, raw_score |-> raw, sort_key |-> key]

\* fault: the search for a point that is not tombstoned finds none
FirstLiveMissed(h, ord) == None

\* self.vectors.keys().find(|id| !self.deleted.contains(id))
FirstLive(h, ord) ==
  LET live == InOrder(DOMAIN h.vectors \ h.deleted, ord)
  IN IF live = <<>> THEN None ELSE Some(live[1])

\* fault: a mark_deleted that leaves the entry point where it is
mark_deleted_keeping_entry(h, point_id, ord) == [h EXCEPT !.deleted = @ \cup {point_id}]

mark_deleted(h, point_id, ord) ==
  LET h1 == [h EXCEPT !.deleted = @ \cup {point_id}]
  IN IF h.entry_point = Some(point_id)
     THEN [h1 EXCEPT !.entry_point = FirstLive(h1, ord)]
     ELSE h1

\* Option<&Vec<PointId>>
layer_neighbors(h, level, point_id) ==
  IF level \in DOMAIN h.layers /\ point_id \in DOMAIN h.layers[level]
  THEN Some(h.layers[level][point_id])
  ELSE None

\* HNSWIndex::get_vector
get_vector(h, point_id) ==
  IF point_id \in h.deleted THEN None
  ELSE IF point_id \in DOMAIN h.vectors THEN Some(h.vectors[point_id])
  ELSE None

\* layers.entry(level).or_default().entry(a).or_default().push(b)
PushEdge(layers, level, a, b) ==
  LET layer == IF level \in DOMAIN layers THEN layers[level] ELSE <<>>
      list == IF a \in DOMAIN layer THEN layer[a] ELSE <<>>
      layer1 == [x \in DOMAIN layer \cup {a} |-> IF x = a THEN Append(list, b) ELSE layer[x]]
  IN [l \in DOMAIN layers \cup {level} |-> IF l = level THEN layer1 ELSE layers[l]]

\* fault: an edge pushed onto the list of a only
add_directed_edge(h, level, a, b) ==
  [h EXCEPT !.layers = PushEdge(@, level, a, b)]

add_bidirectional_edge(h, level, a, b) ==
  [h EXCEPT !.layers = PushEdge(PushEdge(@, level, a, b), level, b, a)]

IdsOf(points) == [i \in 1..Len(points) |-> points[i].id]

\* self.layers.get(&level).and_then(|l| l.get(&id)), an absent list read as
\* the empty list: the loops over it then do nothing
Adjacent(h, level, point_id) ==
  IF level \in DOMAIN h.layers /\ point_id \in DOMAIN h.layers[level]
  THEN h.layers[level][point_id]
  ELSE <<>>

\* ScoredPoint { id, raw_score: score(query, vectors[id]), sort_key }
ScoredOf(h, query, normalize, id) ==
  LET scored(raw) ==
        ScoredPoint(id, raw, IF normalize THEN normalize_score(h.metric, raw) ELSE raw)
  IN scored(score(query, h.vectors[id], h.metric))

\* the first neighbour, in list order, that is not tombstoned and strictly
\* improves on current; None when there is none
FirstImproving(h, query, current, neighbors) ==
  LET better(n) ==
        /\ n \notin h.deleted
        /\ normalize_score(h.metric, score(query, h.vectors[n], h.metric))
             < normalize_score(h.metric, score(query, h.vectors[current], h.metric))
      first(hits) == IF hits = <<>> THEN None ELSE Some(hits[1])
  IN first(SelectSeq(neighbors, better))

RECURSIVE GreedyLoop(_, _, _, _, _)
GreedyLoop(h, query, current, level, steps) ==
  IF steps >= GreedyMaxSteps THEN current
  ELSE LET move(next) == IF next = None THEN current
                         ELSE GreedyLoop(h, query, Unwrap(next), level, steps + 1)
       IN move(FirstImproving(h, query, current, Adjacent(h, level, current)))

greedy_search_layer(h, query, entry, level) == GreedyLoop(h, query, entry, level, 0)

\* for l in (lo..=hi).rev() { current = greedy_search_layer(query, current, l) }
RECURSIVE GreedyDescend(_, _, _, _, _)
GreedyDescend(h, query, current, hi, lo) ==
  IF hi < lo THEN current
  ELSE GreedyDescend(h, query, greedy_search_layer(h, query, current, hi), hi - 1, lo)

\* the element a min-heap by sort key yields first
BestOf(S, ord) ==
  CHOOSE x \in S : \A y \in S :
    \/ x.sort_key < y.sort_key
    \/ x.sort_key = y.sort_key /\ Rank(ord, x.id) <= Rank(ord, y.id)

\* the element a max-heap by sort key yields first
WorstOf(S, ord) ==
  CHOOSE x \in S : \A y \in S :
    \/ x.sort_key > y.sort_key
    \/ x.sort_key = y.sort_key /\ Rank(ord, x.id) >= Rank(ord, y.id)

\* fault: a sort that puts the largest sort key first
RECURSIVE SortWorstFirst(_, _)
SortWorstFirst(S, ord) ==
  IF S = {} THEN <<>>
  ELSE LET rest(first) == <<first>> \o SortWorstFirst(S \ {first}, ord)
       IN rest(WorstOf(S, ord))

\* the heap's elements sorted ascending by sort key
RECURSIVE SortByKey(_, _)
SortByKey(S, ord) ==
  IF S = {} THEN <<>>
  ELSE LET rest(first) == <<first>> \o SortByKey(S \ {first}, ord)
       IN rest(BestOf(S, ord))

\* result_set.push(sp); if result_set.len() > ef { result_set.pop(); }
PushBounded(result_set, sp, ef, ord) ==
  LET trim(pushed) == IF Cardinality(pushed) > ef
                      THEN pushed \ {WorstOf(pushed, ord)} ELSE pushed
  IN trim(result_set \cup {sp})

\* the body of the for loop of search_layer for a neighbour that is neither
\* tombstoned nor visited; b holds visited, candidate_queue, result_set and
\* worst_score
VisitNeighbor(ef, ord, sp, b) ==
  LET admit(kept) ==
        [visited |-> b.visited \cup {sp.id},
         candidate_queue |-> b.candidate_queue \cup {sp},
         result_set |-> kept,
         worst_score |-> IF kept = {} THEN b.worst_score ELSE WorstOf(kept, ord).sort_key]
  IN IF Cardinality(b.result_set) < ef \/ sp.sort_key < b.worst_score
     THEN admit(PushBounded(b.result_set, sp, ef, ord))
     ELSE [b EXCEPT !.visited = @ \cup {sp.id}]

\* the for loop of search_layer over the neighbours of one popped candidate
RECURSIVE ScanNeighbors(_, _, _, _, _, _, _)
ScanNeighbors(h, query, ef, normalize, ord, neighbors, b) ==
  IF neighbors = <<>> THEN b
  ELSE ScanNeighbors(h, query, ef, normalize, ord, Tail(neighbors),
         IF Head(neighbors) \in h.deleted \/ Head(neighbors) \in b.visited THEN b
         ELSE VisitNeighbor(ef, ord, ScoredOf(h, query, normalize, Head(neighbors)), b))

\* the while loop of search_layer
RECURSIVE BeamLoop(_, _, _, _, _, _, _)
BeamLoop(h, query, level, ef, normalize, ord, b) ==
  IF b.candidate_queue = {} THEN b
  ELSE LET expand(current) ==
             IF current.sort_key > b.worst_score THEN b
             ELSE BeamLoop(h, query, level, ef, normalize, ord,
                    ScanNeighbors(h, query, ef, normalize, ord,
                                  Adjacent(h, level, current.id),
                                  [b EXCEPT !.candidate_queue = @ \ {current}]))
       IN expand(BestOf(b.candidate_queue, ord))

\* if self.deleted.contains(&entry)
\*   { self.vectors.keys().find(|id| !self.deleted.contains(id)).unwrap_or(entry) }
StartEntry(h, entry, ord) ==
  IF entry \in h.deleted /\ FirstLive(h, ord) # None
  THEN Unwrap(FirstLive(h, ord))
  ELSE entry

\* Result<Vec<ScoredPoint>, DBError>
search_layer(h, query, entry, level, ef, normalize, ord) ==
  IF Len(query) # Dim THEN Err(VectorLengthMismatch(Dim, Len(query)))
  ELSE LET beam(initial) ==
             BeamLoop(h, query, level, ef, normalize, ord,
                      [visited |-> {initial.id}, candidate_queue |-> {initial},
                       result_set |-> {initial}, worst_score |-> initial.sort_key])
       IN Ok(SortByKey(beam(ScoredOf(h, query, normalize, StartEntry(h, entry, ord))).result_set,
                       ord))

\* HNSWIndex::search
search(h, query, top_k, ord) ==
  IF h.entry_point = None THEN Ok(<<>>)
  ELSE IF Len(query) # Dim THEN Err(VectorLengthMismatch(Dim, Len(query)))
  ELSE LET normalize_query == h.metric = "Cosine"
           normalize_score_flag == h.metric \in {"Cosine", "Dot"}
           truncate(results) ==
             IF ~results.ok THEN results
             ELSE Ok(Take(SortByKey(Range(results.val), ord), top_k))
           descend(q) ==
             truncate(search_layer(h, q,
                        GreedyDescend(h, q, Unwrap(h.entry_point), h.current_max_level, 1),
                        0, Ef, normalize_score_flag, ord))
       IN descend(IF normalize_query THEN maybe_normalize(h.metric, query) ELSE query)

\* fault: a self-link on the base layer only
SelfLinkAtBase(layers, point_id, level) == PushEdge(layers, 0, point_id, point_id)

\* the self-links of a new point: for l in 0..=level
RECURSIVE WithSelfLinks(_, _, _)
WithSelfLinks(layers, point_id, level) ==
  IF level < 0 THEN layers
  ELSE PushEdge(WithSelfLinks(layers, point_id, level - 1), level, point_id, point_id)

\* fault: the neighbours are recorded for the new point only
LinkedLayerOneWay(layer, point_id, neighbors) ==
  [x \in DOMAIN layer \cup {point_id} |->
     IF x # point_id THEN layer[x]
     ELSE IF Contains(neighbors, point_id) THEN neighbors
     ELSE Append(neighbors, point_id)]

\* the body of the linking loop of insert at level l, given the candidates
\* search_layer returned: the layer with the point's list and the back links
LinkedLayer(layer, point_id, neighbors) ==
  LET linked == IF Contains(neighbors, point_id) THEN neighbors
                ELSE Append(neighbors, point_id)
      back(layer1) ==
        [x \in DOMAIN layer1 \cup Range(neighbors) |->
           LET e == IF x \in DOMAIN layer1 THEN layer1[x] ELSE <<>>
           IN IF x \in Range(neighbors) /\ ~Contains(e, point_id)
              THEN Append(e, point_id) ELSE e]
  IN back([x \in DOMAIN layer \cup {point_id} |-> IF x = point_id THEN linked ELSE layer[x]])

\* the linking loop of insert: for l in (0..=level).rev()
RECURSIVE LinkLevels(_, _, _, _, _)
LinkLevels(h, point_id, current_entry, l, ord) ==
  IF l < 0 THEN HOk(h)
  ELSE LET link(neighbors) ==
             LinkLevels([h EXCEPT !.layers[l] = LinkedLayer(@, point_id, neighbors)],
                        point_id,
                        IF neighbors # <<>> THEN neighbors[1] ELSE current_entry,
                        l - 1, ord)
           take(candidates) ==
             IF ~candidates.ok THEN HErr(h, candidates.err)
             ELSE link(IdsOf(Take(candidates.val, M)))
       IN take(search_layer(h, h.vectors[point_id], current_entry, l, Ef,
                            h.metric = "Cosine" \/ h.metric = "Dot", ord))

\* HNSWIndex::insert after its two early returns: the point is stored and
\* linked; level is the value assign_random_level drew
InsertNew(h, point_id, vector, level, ord) ==
       LET promote(linked) ==
             IF linked.ok /\ level > h.current_max_level
             THEN HOk([linked.h EXCEPT !.entry_point = Some(point_id),
                                       !.current_max_level = level])
             ELSE linked
           link(h1) ==
             IF h1.entry_point = None
             THEN HOk([h1 EXCEPT !.entry_point = Some(point_id), !.current_max_level = level])
             ELSE promote(LinkLevels(h1, point_id,
                            GreedyDescend(h1, h1.vectors[point_id],
                                          StartEntry(h1, Unwrap(h1.entry_point), ord),
                                          h1.current_max_level, level + 1),
                            level, ord))
       IN link([h EXCEPT !.vectors = @ @@ (point_id :> maybe_normalize(h.metric, vector)),
                         !.levels = @ @@ (point_id :> level),
                         !.layers = WithSelfLinks(@, point_id, level)])

\* fault: an insert that stores the vector before it checks the length
insert_storing_first(h, point_id, vector, level, ord) ==
  IF point_id \in DOMAIN h.vectors THEN HOk(h)
  ELSE IF Len(vector) # Dim
  THEN HErr([h EXCEPT !.vectors = @ @@ (point_id :> vector),
                      !.levels = @ @@ (point_id :> level)],
            VectorLengthMismatch(Dim, Len(vector)))
  ELSE InsertNew(h, point_id, vector, level, ord)

\* fault: an insert without the contains_key early return
insert_unguarded(h, point_id, vector, level, ord) ==
  IF Len(vector) # Dim THEN HErr(h, VectorLengthMismatch(Dim, Len(vector)))
  ELSE InsertNew(h, point_id, vector, level, ord)

\* HNSWIndex::insert
insert(h, point_id, vector, level, ord) ==
  IF point_id \in DOMAIN h.vectors THEN HOk(h)
  ELSE IF Len(vector) # Dim THEN HErr(h, VectorLengthMismatch(Dim, Len(vector)))
  ELSE InsertNew(h, point_id, vector, level, ord)

(***************************************************************************)
(* Filter-aware edge builder (HNSWIndex::build_filter_aware_edges).        *)
(***************************************************************************)
\* sample limit of choose_multiple
SampleLimit == 100

\* the comparison key of the two sort_by closures: raw descending for Dot,
\* raw ascending otherwise
RawSortKey(metric, sp) == IF metric = "Dot" THEN 0 - sp.raw_score ELSE sp.raw_score

\* slice::sort_by is stable: an element goes after the elements that do not
\* compare greater
InsertSorted(sorted, sp, metric) ==
  LET n == Cardinality({i \in 1..Len(sorted) :
                          RawSortKey(metric, sorted[i]) <= RawSortKey(metric, sp)})
  IN SubSeq(sorted, 1, n) \o <<sp>> \o SubSeq(sorted, n + 1, Len(sorted))

RECURSIVE SortByRaw(_, _)
SortByRaw(s, metric) ==
  IF s = <<>> THEN <<>>
  ELSE InsertSorted(SortByRaw(SubSeq(s, 1, Len(s) - 1), metric), s[Len(s)], metric)

\* the ids a sequence of ids is scored into, in the same order
ScoreIds(h, query, ids) ==
  [i \in 1..Len(ids) |->
     LET raw == score(query, h.vectors[ids[i]], h.metric)
     IN ScoredPoint(ids[i], raw, normalize_score(h.metric, raw))]

\* fault: a fast path that takes its sample from all stored ids
FastPathOverAll(h, point_id, query_vector, id_set, ord) == DOMAIN h.vectors \ {point_id}

\* fast path: the top m of the sampled ids under (key, value)
FastPath(h, point_id, query_vector, id_set, ord) ==
  LET eligible == {id \in id_set : id # point_id /\ get_vector(h, id) # None}
      sample == Take(InOrder(eligible, ord), SampleLimit)
      scored == SortByRaw(ScoreIds(h, query_vector, sample), h.metric)
  IN Range(IdsOf(Take(scored, M)))

\* fallback candidates: Result<Vec<ScoredPoint>, DBError>
FallbackCandidates(h, point_id, query_vector, ord) ==
  IF h.current_max_level > 0
  THEN LET entry == GreedyDescend(h, query_vector, Unwrap(h.entry_point), h.current_max_level, 1)
       IN search_layer(h, query_vector, entry, 0, Ef,
                       h.metric = "Cosine" \/ h.metric = "Dot", ord)
  ELSE Ok(ScoreIds(h, query_vector,
            InOrder({id \in DOMAIN h.vectors : id # point_id /\ id \notin h.deleted}, ord)))

\* the loop over filter_keys; extra is extra_neighbors.  Result: [ok, extra]
RECURSIVE CollectExtra(_, _, _, _, _, _, _, _, _)
CollectExtra(h, point_id, query_vector, payload, payload_index, payloads, keys, ord, extra) ==
  IF keys = <<>> THEN [ok |-> TRUE, extra |-> extra]
  ELSE IF Head(keys) \notin DOMAIN payload
  THEN CollectExtra(h, point_id, query_vector, payload, payload_index, payloads,
                    Tail(keys), ord, extra)
  ELSE LET key == Head(keys)
           value == payload[key]
           matching(sp) == /\ sp.id \in DOMAIN payloads
                           /\ key \in DOMAIN payloads[sp.id]
                           /\ ValEq(payloads[sp.id][key], value)
           next(extra2) ==
             IF Cardinality(extra2) >= M THEN [ok |-> TRUE, extra |-> extra2]
             ELSE CollectExtra(h, point_id, query_vector, payload, payload_index,
                               payloads, Tail(keys), ord, extra2)
           fallback(extra1, candidates) ==
             IF ~candidates.ok THEN [ok |-> FALSE, err |-> candidates.err]
             ELSE next(extra1 \cup Range(IdsOf(Take(
                         SelectSeq(SortByRaw(candidates.val, h.metric), matching), M))))
           fast(id_set, extra1) ==
             IF id_set # None /\ Cardinality(extra1) >= M
             THEN [ok |-> TRUE, extra |-> extra1]
             ELSE fallback(extra1, FallbackCandidates(h, point_id, query_vector, ord))
           lookup(id_set) ==
             fast(id_set,
                  IF id_set = None THEN extra
                  ELSE extra \cup FastPath(h, point_id, query_vector, Unwrap(id_set), ord))
       IN lookup(query_exact(payload_index, key, value))

\* for neighbor_id in extra_neighbors { add_bidirectional_edge(0, point_id, neighbor_id) }
RECURSIVE AddExtraEdges(_, _, _)
AddExtraEdges(h, point_id, neighbor_ids) ==
  IF neighbor_ids = <<>> THEN h
  ELSE AddExtraEdges(add_bidirectional_edge(h, 0, point_id, Head(neighbor_ids)),
                     point_id, Tail(neighbor_ids))

build_filter_aware_edges(h, point_id, vector, payload, payload_index, payloads, filter_keys, ord) ==
  LET add(collected) ==
        IF ~collected.ok THEN HErr(h, collected.err)
        ELSE HOk(AddExtraEdges(h, point_id, InOrder(collected.extra \cup {point_id}, ord)))
  IN add(CollectExtra(h, point_id,
                      IF h.metric = "Cosine" THEN maybe_normalize(h.metric, vector) ELSE vector,
                      payload, payload_index, payloads, filter_keys, ord, {}))

(***************************************************************************)
(* In-place filtered search (src/src/vector/in_place.rs).  filter is an    *)
(* Option<Filter>; is_deleted is the set of ids the closure answers true   *)
(* for.  An unwrap() of None is the error Panic.                           *)
(***************************************************************************)
Panic == [kind |-> "Panic"]

SortKeyOf(metric, d) == IF metric = "Dot" THEN 0 - d ELSE d

RECURSIVE find_entry_point_matching_filter(_, _, _, _, _)
RECURSIVE FindInConds(_, _, _, _, _)
find_entry_point_matching_filter(filter, payload_index, is_deleted, h, ord) ==
  CASE filter.type = "Match" ->
         LET id_set == query_exact(payload_index, filter.key, filter.value)
         IN IF id_set = None THEN None
            ELSE LET hits == InOrder({id \in Unwrap(id_set) : id \notin is_deleted
                                                     /\ get_vector(h, id) # None}, ord)
                 IN IF hits = <<>> THEN None ELSE Some(hits[1])
    [] filter.type \in {"And", "Or"} ->
         FindInConds(filter.conds, payload_index, is_deleted, h, ord)
    [] filter.type = "Not" ->
         find_entry_point_matching_filter(filter.inner, payload_index, is_deleted, h, ord)
    [] filter.type = "Compare" -> None

FindInConds(conds, payload_index, is_deleted, h, ord) ==
  IF conds = <<>> THEN None
  ELSE LET id == find_entry_point_matching_filter(Head(conds), payload_index, is_deleted, h, ord)
       IN IF id # None THEN id
          ELSE FindInConds(Tail(conds), payload_index, is_deleted, h, ord)

\* the filter test both loops apply to a neighbour: Ok(TRUE) to go on with it,
\* Ok(FALSE) to skip it (continue), or the error that `?` returns
FilterVerdict(filter, payloads, neighbor) ==
  IF filter = None THEN Ok(TRUE)
  ELSE IF neighbor \notin DOMAIN payloads THEN Ok(FALSE)
  ELSE evaluate_filter(Unwrap(filter), payloads[neighbor])

\* one pass of the for loop of greedy_search_layer_with_filter: g is
\* [current, changed] or an error
RECURSIVE GreedyFilterScan(_, _, _, _, _, _, _)
GreedyFilterScan(h, query, payloads, filter, is_deleted, neighbors, g) ==
  IF neighbors = <<>> THEN Ok(g)
  ELSE LET neighbor == Head(neighbors)
           verdict == FilterVerdict(filter, payloads, neighbor)
       IN IF neighbor \in is_deleted
          THEN GreedyFilterScan(h, query, payloads, filter, is_deleted, Tail(neighbors), g)
          ELSE IF ~verdict.ok THEN verdict
          ELSE IF ~verdict.val
          THEN GreedyFilterScan(h, query, payloads, filter, is_deleted, Tail(neighbors), g)
          ELSE IF get_vector(h, g.current) = None \/ get_vector(h, neighbor) = None
          THEN Err(Panic)
          ELSE LET s_current == SortKeyOf(h.metric,
                                  score(query, Unwrap(get_vector(h, g.current)), h.metric))
                   s_new == SortKeyOf(h.metric,
                              score(query, Unwrap(get_vector(h, neighbor)), h.metric))
               IN GreedyFilterScan(h, query, payloads, filter, is_deleted, Tail(neighbors),
                    IF s_new < s_current THEN [current |-> neighbor, changed |-> TRUE] ELSE g)

RECURSIVE greedy_search_layer_with_filter(_, _, _, _, _, _, _)
greedy_search_layer_with_filter(query, entry, level, h, payloads, filter, is_deleted) ==
  LET neighbors == layer_neighbors(h, level, entry)
      pass == IF neighbors = None THEN Ok([current |-> entry, changed |-> FALSE])
              ELSE GreedyFilterScan(h, query, payloads, filter, is_deleted,
                                    Unwrap(neighbors), [current |-> entry, changed |-> FALSE])
  IN IF ~pass.ok THEN pass
     ELSE IF ~pass.val.changed THEN Ok(pass.val.current)
     ELSE greedy_search_layer_with_filter(query, pass.val.current, level, h, payloads,
                                          filter, is_deleted)

\* for level in (1..=current_max_level).rev()
RECURSIVE GreedyFilterDescend(_, _, _, _, _, _, _)
GreedyFilterDescend(query, current, level, h, payloads, filter, is_deleted) ==
  IF level < 1 THEN Ok(current)
  ELSE LET r == greedy_search_layer_with_filter(query, current, level, h, payloads,
                                                filter, is_deleted)
       IN IF ~r.ok THEN r
          ELSE GreedyFilterDescend(query, r.val, level - 1, h, payloads, filter, is_deleted)

\* the for loop over the neighbours of one popped candidate; b holds visited,
\* candidates and results, both heaps of ScoredPoint (whose Ord puts the
\* lowest sort key on top)
RECURSIVE InPlaceScan(_, _, _, _, _, _, _, _)
InPlaceScan(h, query, payloads, filter, is_deleted, ord, neighbors, b) ==
  IF neighbors = <<>> THEN Ok(b)
  ELSE LET neighbor == Head(neighbors)
           seen == [b EXCEPT !.visited = @ \cup {neighbor}]
           verdict == FilterVerdict(filter, payloads, neighbor)
       IN IF neighbor \in b.visited \/ neighbor \in is_deleted
          THEN InPlaceScan(h, query, payloads, filter, is_deleted, ord, Tail(neighbors), seen)
          ELSE IF ~verdict.ok THEN verdict
          ELSE IF ~verdict.val
          THEN InPlaceScan(h, query, payloads, filter, is_deleted, ord, Tail(neighbors), seen)
          ELSE IF get_vector(h, neighbor) = None THEN Err(Panic)
          ELSE LET d == score(query, Unwrap(get_vector(h, neighbor)), h.metric)
                   sp == ScoredPoint(neighbor, d, SortKeyOf(h.metric, d))
                   pushed == b.results \cup {sp}
                   kept == IF Cardinality(pushed) > Ef
                           THEN pushed \ {BestOf(pushed, ord)} ELSE pushed
               IN InPlaceScan(h, query, payloads, filter, is_deleted, ord, Tail(neighbors),
                    [visited |-> seen.visited, candidates |-> b.candidates \cup {sp},
                     results |-> kept])

\* while let Some(current) = candidates.pop()
RECURSIVE InPlaceLoop(_, _, _, _, _, _, _)
InPlaceLoop(h, query, payloads, filter, is_deleted, ord, b) ==
  IF b.candidates = {} THEN Ok(b)
  ELSE LET current == BestOf(b.candidates, ord)
           popped == [b EXCEPT !.candidates = @ \ {current}]
           neighbors == layer_neighbors(h, 0, current.id)
       IN IF neighbors = None
          THEN InPlaceLoop(h, query, payloads, filter, is_deleted, ord, popped)
          ELSE LET r == InPlaceScan(h, query, payloads, filter, is_deleted, ord,
                                    Unwrap(neighbors), popped)
               IN IF ~r.ok THEN r
                  ELSE InPlaceLoop(h, query, payloads, filter, is_deleted, ord, r.val)

\* BinaryHeap::into_sorted_vec: ascending in Ord, the lowest sort key last
RECURSIVE IntoSortedVec(_, _)
IntoSortedVec(S, ord) ==
  IF S = {} THEN <<>>
  ELSE IntoSortedVec(S \ {BestOf(S, ord)}, ord) \o <<BestOf(S, ord)>>

\* the seed: Ok(id), Ok(None) for the early return of an empty list, or the error
InPlaceSeed(h, payloads, payload_index, filter, is_deleted, ord) ==
  LET found == find_entry_point_matching_filter(Unwrap(filter), payload_index,
                                                is_deleted, h, ord)
  IN IF h.entry_point # None
     THEN LET id == Unwrap(h.entry_point) IN
          IF filter # None
          THEN IF id \in DOMAIN payloads
               THEN LET r == evaluate_filter(Unwrap(filter), payloads[id])
                    IN IF ~r.ok THEN r
                       ELSE IF r.val THEN Ok(Some(id))
                       ELSE Ok(IF found = None THEN Some(id) ELSE found)
               ELSE Ok(IF found = None THEN Some(id) ELSE found)
          ELSE Ok(Some(id))
     ELSE IF filter # None THEN Ok(found) ELSE Ok(None)

in_place_filtered_search(query, top_k, h, payloads, payload_index, filter, is_deleted, ord) ==
  IF Len(query) # Dim THEN Err(VectorLengthMismatch(Dim, Len(query)))
  ELSE LET seed == InPlaceSeed(h, payloads, payload_index, filter, is_deleted, ord)
       IN IF ~seed.ok THEN seed
          ELSE IF seed.val = None THEN Ok(<<>>)
          ELSE LET descended == GreedyFilterDescend(query, Unwrap(seed.val), h.current_max_level,
                                                    h, payloads, filter, is_deleted)
               IN IF ~descended.ok THEN descended
                  ELSE IF get_vector(h, descended.val) = None THEN Err(Panic)
                  ELSE LET current == descended.val
                           dist == score(query, Unwrap(get_vector(h, current)), h.metric)
                           first == ScoredPoint(current, dist, SortKeyOf(h.metric, dist))
                           done == InPlaceLoop(h, query, payloads, filter, is_deleted, ord,
                                     [visited |-> {current}, candidates |-> {first},
                                      results |-> {first}])
                       IN IF ~done.ok THEN done
                          ELSE Ok(Take(IntoSortedVec(done.val.results, ord), top_k))

(***************************************************************************)
(* Segment (src/src/segment/segment.rs).  A segment value s is the record  *)
(* of the struct's fields.  Methods taking &mut self yield [res, s]: the   *)
(* returned Result and the segment as the call left it.                    *)
(***************************************************************************)
SegmentNew(h) ==
  [hnsw |-> h, payload_index |-> <<>>, payloads |-> <<>>, deleted |-> {}, next_id |-> 1]

\* HashMap::insert
MapInsert(map, k, v) == [x \in DOMAIN map \cup {k} |-> IF x = k THEN v ELSE map[x]]

\* the scalar fields of a payload in the order its HashMap yields them
FilterKeys(p, korder) == SelectSeq(korder, LAMBDA k : k \in IndexableKeys(p))

\* Segment::insert; payload is an Option<Payload>
SegmentInsert(s, vector, payload, level, ord, korder) ==
  LET point_id == s.next_id
      finish(s1, built) ==
        IF ~built.ok THEN [res |-> Err(built.err), s |-> [s1 EXCEPT !.hnsw = built.h]]
        ELSE [res |-> Ok(point_id), s |-> [s1 EXCEPT !.hnsw = built.h, !.next_id = @ + 1]]
      store(h, p, s1) ==
        finish(s1, IF FilterKeys(p, korder) # <<>>
                   THEN build_filter_aware_edges(h, point_id, vector, p, s1.payload_index,
                                                 s1.payloads, FilterKeys(p, korder), ord)
                   ELSE HOk(h))
      index(ins) ==
        IF ~ins.ok THEN [res |-> Err(ins.err), s |-> [s EXCEPT !.hnsw = ins.h]]
        ELSE IF payload # None
        THEN store(ins.h, Unwrap(payload),
                   [s EXCEPT !.payload_index = PayloadIndexInsert(@, point_id, Unwrap(payload)),
                             !.payloads = MapInsert(@, point_id, Unwrap(payload))])
        ELSE [res |-> Ok(point_id), s |-> [s EXCEPT !.hnsw = ins.h, !.next_id = @ + 1]]
  IN index(insert(s.hnsw, point_id, vector, level, ord))

\* Segment::get_vector
SegmentGetVector(s, point_id) ==
  IF point_id \in s.deleted THEN None ELSE get_vector(s.hnsw, point_id)

\* the loop of Segment::purge over the ids of hnsw.iter_vectors() that pass
\* `if self.deleted.contains(&id) { continue; }`; n is the record of new_hnsw,
\* new_payload_index and new_payloads, lv the levels the inserts draw
RECURSIVE PurgeLoop(_, _, _, _, _, _)
PurgeLoop(s, ids, n, lv, ord, korder) ==
  IF ids = <<>> THEN Ok(n)
  ELSE LET id == Head(ids)
           vector == s.hnsw.vectors[id]
           next(n1, built) ==
             IF ~built.ok THEN Err(built.err)
             ELSE PurgeLoop(s, Tail(ids), [n1 EXCEPT !.hnsw = built.h], lv, ord, korder)
           rebuild(h, p, n1) ==
             next(n1, build_filter_aware_edges(h, id, vector, p, n1.payload_index,
                                               n1.payloads, FilterKeys(p, korder), ord))
           reinsert(ins) ==
             IF ~ins.ok THEN Err(ins.err)
             ELSE IF id \in DOMAIN s.payloads
             THEN rebuild(ins.h, s.payloads[id],
                          [n EXCEPT !.payload_index = PayloadIndexInsert(@, id, s.payloads[id]),
                                    !.payloads = MapInsert(@, id, s.payloads[id])])
             ELSE PurgeLoop(s, Tail(ids), [n EXCEPT !.hnsw = ins.h], lv, ord, korder)
       IN reinsert(insert(n.hnsw, id, vector, lv[id], ord))

\* the structures Segment::purge rebuilds from the live points: Ok of the
\* record of new_hnsw, new_payload_index and new_payloads, or the Err of an
\* insert
PurgeRebuild(s, lv, ord, korder) ==
  PurgeLoop(s, SelectSeq(InOrder(DOMAIN s.hnsw.vectors, ord),
                         LAMBDA id : id \notin s.deleted),
            [hnsw |-> HNSWIndexNew(s.hnsw.metric), payload_index |-> <<>>,
             payloads |-> <<>>],
            lv, ord, korder)

\* fault: a purge without self.deleted.clear()
SegmentPurgeKeepingTombstones(s, lv, ord, korder) ==
  LET swap(rebuilt) ==
        IF ~rebuilt.ok THEN [res |-> rebuilt, s |-> s]
        ELSE [res |-> Ok("unit"),
              s |-> [s EXCEPT !.hnsw = rebuilt.val.hnsw,
                              !.payload_index = rebuilt.val.payload_index,
                              !.payloads = rebuilt.val.payloads]]
  IN swap(PurgeRebuild(s, lv, ord, korder))

\* fault: a purge that assigns the new index and clears the tombstones, and
\* leaves payload_index and payloads as they were
SegmentPurgeSwappingIndexOnly(s, lv, ord, korder) ==
  LET swap(rebuilt) ==
        IF ~rebuilt.ok THEN [res |-> rebuilt, s |-> s]
        ELSE [res |-> Ok("unit"),
              s |-> [s EXCEPT !.hnsw = rebuilt.val.hnsw, !.deleted = {}]]
  IN swap(PurgeRebuild(s, lv, ord, korder))

\* fault: a purge that drops the tombstoned vectors and keeps the graph
SegmentPurgeKeepingGraph(s, lv, ord, korder) ==
  [res |-> Ok("unit"),
   s |-> [s EXCEPT !.hnsw.vectors = Restrict(@, DOMAIN @ \ s.deleted),
                   !.hnsw.levels = Restrict(@, DOMAIN @ \ s.deleted),
                   !.hnsw.deleted = {},
                   !.deleted = {}]]

\* fault: a purge that starts the segment over, its id counter included
SegmentPurgeRestarting(s, lv, ord, korder) ==
  [res |-> Ok("unit"), s |-> SegmentNew(HNSWIndexNew(s.hnsw.metric))]

\* Segment::purge
SegmentPurge(s, lv, ord, korder) ==
  LET swap(rebuilt) ==
        IF ~rebuilt.ok THEN [res |-> rebuilt, s |-> s]
        ELSE [res |-> Ok("unit"),
              s |-> [s EXCEPT !.hnsw = rebuilt.val.hnsw,
                              !.payload_index = rebuilt.val.payload_index,
                              !.payloads = rebuilt.val.payloads,
                              !.deleted = {}]]
  IN swap(PurgeRebuild(s, lv, ord, korder))

\* fault: a delete that records no tombstone
SegmentTombstoneForgotten(s, point_id, ord) == s

\* fault: a delete that drops the stored payload of the point as well
SegmentTombstoneDroppingPayload(s, point_id, ord) ==
  [s EXCEPT !.payload_index = IF point_id \in DOMAIN s.payloads
                              THEN PayloadIndexRemove(@, point_id, s.payloads[point_id])
                              ELSE @,
            !.payloads = Restrict(@, DOMAIN @ \ {point_id}),
            !.deleted = @ \cup {point_id},
            !.hnsw = mark_deleted(@, point_id, ord)]

\* the part of Segment::delete before the compaction trigger
SegmentTombstone(s, point_id, ord) ==
  [s EXCEPT !.payload_index = IF point_id \in DOMAIN s.payloads
                              THEN PayloadIndexRemove(@, point_id, s.payloads[point_id])
                              ELSE @,
            !.deleted = @ \cup {point_id},
            !.hnsw = mark_deleted(@, point_id, ord)]

\* fault: a compaction trigger that tests the ratio alone
PurgeTriggeredByRatio(s) ==
  Cardinality(s.deleted) * MaxDeletionRatioDen
    >= MaxDeletionRatioNum * Cardinality(DOMAIN s.hnsw.vectors)

\* deleted_count >= MIN_DELETIONS_BEFORE_PURGE &&
\* deleted_count as f32 / total_count as f32 >= MAX_DELETION_RATIO
PurgeTriggered(s) ==
  LET deleted_count == Cardinality(s.deleted)
      total_count == Cardinality(DOMAIN s.hnsw.vectors)
  IN /\ deleted_count >= MIN_DELETIONS_BEFORE_PURGE
     /\ deleted_count * MaxDeletionRatioDen >= MaxDeletionRatioNum * total_count

\* fault: a delete without the early return for ids that are tombstoned or
\* not stored
SegmentDeleteUnguarded(s, point_id, lv, ord, korder) ==
  LET compact(s1) ==
        IF PurgeTriggered(s1) THEN SegmentPurge(s1, lv, ord, korder)
        ELSE [res |-> Ok("unit"), s |-> s1]
  IN compact(SegmentTombstone(s, point_id, ord))

\* fault: a delete whose early return does not ask whether the id is stored
SegmentDeleteOfUnstored(s, point_id, lv, ord, korder) ==
  IF point_id \in s.deleted
  THEN [res |-> Ok("unit"), s |-> s]
  ELSE LET compact(s1) ==
             IF PurgeTriggered(s1) THEN SegmentPurge(s1, lv, ord, korder)
             ELSE [res |-> Ok("unit"), s |-> s1]
       IN compact(SegmentTombstone(s, point_id, ord))

\* Segment::delete
SegmentDelete(s, point_id, lv, ord, korder) ==
  IF point_id \in s.deleted \/ point_id \notin DOMAIN s.hnsw.vectors
  THEN [res |-> Ok("unit"), s |-> s]
  ELSE LET compact(s1) ==
             IF PurgeTriggered(s1) THEN SegmentPurge(s1, lv, ord, korder)
             ELSE [res |-> Ok("unit"), s |-> s1]
       IN compact(SegmentTombstone(s, point_id, ord))

\* fault: the count of stored points, tombstoned ones included
TotalStored(s) == Cardinality(DOMAIN s.hnsw.vectors)

\* hnsw.len() - deleted.len(), a usize subtraction
TotalNonDeleted(s) == Cardinality(DOMAIN s.hnsw.vectors) - Cardinality(s.deleted)

\* Segment::search
SegmentSearch(s, query, top_k, ord) ==
  IF TotalNonDeleted(s) < 0 THEN Err(Panic)
  ELSE IF TotalNonDeleted(s) = 0 THEN Err(SearchError)
  ELSE LET candidates == search(s.hnsw, query, top_k * 2, ord)
       IN IF ~candidates.ok THEN candidates
          ELSE Ok(Take(SelectSeq(candidates.val, LAMBDA sp : sp.id \notin s.deleted), top_k))

\* fault: a post_filter that keeps the candidates that have no payload
post_filter_keeping_bare(s, query, top_k, filter, ord) ==
  IF TotalNonDeleted(s) = 0 THEN Err(SearchError)
  ELSE LET candidates == search(s.hnsw, query, top_k * 4, ord)
           keep(sp) ==
             /\ sp.id \notin s.deleted
             /\ \/ filter = None
                \/ sp.id \notin DOMAIN s.payloads
                \/ LET r == evaluate_filter(Unwrap(filter), s.payloads[sp.id])
                   IN r.ok /\ r.val
       IN IF ~candidates.ok THEN candidates
          ELSE Ok(Take(SelectSeq(candidates.val, keep), top_k))

\* Segment::post_filter; filter is an Option<Filter>
post_filter(s, query, top_k, filter, ord) ==
  IF TotalNonDeleted(s) < 0 THEN Err(Panic)
  ELSE IF TotalNonDeleted(s) = 0 THEN Err(SearchError)
  ELSE LET candidates == search(s.hnsw, query, top_k * 4, ord)
           keep(sp) ==
             /\ sp.id \notin s.deleted
             /\ \/ filter = None
                \/ /\ sp.id \in DOMAIN s.payloads
                   /\ LET r == evaluate_filter(Unwrap(filter), s.payloads[sp.id])
                      IN r.ok /\ r.val
       IN IF ~candidates.ok THEN candidates
          ELSE Ok(Take(SelectSeq(candidates.val, keep), top_k))

\* Segment::search_with_filter delegates to the in-place filtered search
search_with_filter(s, query, top_k, filter, ord) ==
  in_place_filtered_search(query, top_k, s.hnsw, s.payloads, s.payload_index, filter,
                           s.deleted, ord)

(***************************************************************************)
(* The state machine: one segment, driven by its public mutating methods.  *)
(* The searches are read-only and are the operators above, evaluated in    *)
(* every reachable state for every query of Queries.                       *)
(***************************************************************************)
VARIABLES
  hnsw,           \* Segment.hnsw
  payload_index,  \* Segment.payload_index
  payloads,       \* Segment.payloads
  deleted,        \* Segment.deleted
  next_id,        \* Segment.next_id
  ret,            \* the last call and the Result it returned
  returned,       \* history: the ids the successful inserts returned, in order
  tombstoned,     \* history: the inserted ids a delete call returned Ok for
  fvec,           \* a vector of f32 and the last call that wrote it
  eval            \* a call of the payload layer: its arguments and result

vars ==
  <<hnsw, payload_index, payloads, deleted, next_id, ret, returned, tombstoned, fvec,
    eval>>

\* the segment as a value
Seg ==
  [hnsw |-> hnsw, payload_index |-> payload_index, payloads |-> payloads,
   deleted |-> deleted, next_id |-> next_id]

Live(s) == DOMAIN s.hnsw.vectors \ s.deleted

StoredPayloads(s) == {s.payloads[id] : id \in DOMAIN s.payloads}

\* the orders in which the HashMap of a payload may yield its scalar fields
KeyOrders(P) == Perms(UNION {IndexableKeys(p) : p \in P})

\* inputs
Ids == 1..MaxPoints
Churned == MIN_DELETIONS_BEFORE_PURGE - 1
Levels == 0..MaxLevelCap
Queries == {<<0 - 1>>, <<0>>, <<2>>}
TopKs == {1, 2}

\* the filters the searches are asked with: every shape of Filter, a field no
\* payload has, and a comparison the payload's type does not support
Filters ==
  <<Match("a", PInt(1)),
   Match("t", PListInt(<<1>>)),
   Match("zz", PInt(1)),
   Compare("a", "Gt", PInt(1)),
   Compare("a", "Lt", PStr(<<1>>)),
   And(<<Match("a", PInt(2)), Match("b", PBool(TRUE))>>),
   Or(<<Match("a", PInt(1)), Compare("b", "Eq", PBool(TRUE))>>),
   Not(Match("a", PInt(1)))>>

\* the (vector, payload) arguments of the insert calls; the last vector has the
\* wrong length
Points ==
  {[vector |-> <<0 - 1>>, payload |-> None],
   [vector |-> <<2>>, payload |-> Some([a |-> PInt(1)])],
   [vector |-> <<0 - 1>>,
    payload |-> Some([a |-> PInt(2), b |-> PBool(TRUE), t |-> PListInt(<<1>>)])],
   [vector |-> <<1, 1>>, payload |-> Some([a |-> PInt(1)])]}

Init ==
  /\ \E metric \in Metrics : hnsw = HNSWIndexNew(metric)
  /\ payload_index = <<>>
  /\ payloads = <<>>
  /\ deleted = {}
  /\ next_id = 1
  /\ ret = [op |-> "new", res |-> Ok("unit")]
  /\ returned = <<>>
  /\ tombstoned = {}
  /\ fvec = [op |-> "new", vector |-> <<>>]
  /\ eval = [op |-> "new"]

\* the fields of segment s as the initial state
SegAssign0(s) ==
  /\ hnsw = s.hnsw
  /\ payload_index = s.payload_index
  /\ payloads = s.payloads
  /\ deleted = s.deleted
  /\ next_id = s.next_id

SegAssign(s) ==
  /\ hnsw' = s.hnsw
  /\ payload_index' = s.payload_index
  /\ payloads' = s.payloads
  /\ deleted' = s.deleted
  /\ next_id' = s.next_id

\* the last id a behaviour inserts: MaxPoints ids past its initial state
IdCap == IF next_id > Churned THEN Churned + MaxPoints ELSE MaxPoints

Insert ==
  /\ next_id <= IdCap
  /\ \E point \in Points, level \in Levels :
       \E ord \in Perms(Live(Seg) \cup {next_id}), korder \in KeyOrders(Range(point.payload)) :
         LET r == SegmentInsert(Seg, point.vector, point.payload, level, ord, korder)
         IN /\ SegAssign(r.s)
            /\ ret' = [op |-> "insert", res |-> r.res]
            /\ returned' = IF r.res.ok THEN Append(returned, r.res.val) ELSE returned
            /\ UNCHANGED <<tombstoned, fvec, eval>>

\* the levels a purge triggered from inside delete draws
TriggeredPurgeLevels(s) ==
  IF PurgeTriggered(s) THEN [Live(s) -> Levels] ELSE {<<>>}

Delete ==
  \E point_id \in Ids \cup Live(Seg), korder \in KeyOrders(StoredPayloads(Seg)) :
    \E ord \in Perms(Live(Seg) \ {point_id}) :
      \E lv \in TriggeredPurgeLevels(SegmentTombstone(Seg, point_id, ord)) :
        LET r == SegmentDelete(Seg, point_id, lv, ord, korder)
        IN /\ SegAssign(r.s)
           /\ ret' = [op |-> "delete", res |-> r.res]
           /\ tombstoned' = IF r.res.ok /\ point_id < next_id
                            THEN tombstoned \cup {point_id} ELSE tombstoned
           /\ UNCHANGED <<returned, fvec, eval>>

\* a call of purge, explored for segments of at most MaxPoints live points
Purge ==
  /\ Cardinality(Live(Seg)) <= MaxPoints
  /\ \E lv \in [Live(Seg) -> Levels], ord \in Perms(Live(Seg)),
        korder \in KeyOrders(StoredPayloads(Seg)) :
       LET r == SegmentPurge(Seg, lv, ord, korder)
       IN /\ SegAssign(r.s)
          /\ ret' = [op |-> "purge", res |-> r.res]
          /\ UNCHANGED <<returned, tombstoned, fvec, eval>>

Next == Insert \/ Delete \/ Purge

Spec == Init /\ [][Next]_vars

\* one call of insert followed by the delete of the id it returned
InsertThenDelete(s) ==
  LET del(id, s1) == SegmentDelete(s1, id, <<>>, <<>>, <<>>).s
      ins(r) == del(r.res.val, r.s)
  IN ins(SegmentInsert(s, <<0 - 1>>, None, 0, <<s.next_id>>, <<>>))

\* segment s after the calls InsertThenDelete number a to b: b - a + 1
\* tombstones more, none of them purged as long as the count stays below
\* MIN_DELETIONS_BEFORE_PURGE.  The calls are split in halves to keep the
\* evaluation shallow.
RECURSIVE Churn(_, _, _)
Churn(s, a, b) ==
  IF a > b THEN s
  ELSE IF a = b THEN InsertThenDelete(s)
  ELSE CHOOSE u \in {Churn(t, (a + b) \div 2 + 1, b) : t \in {Churn(s, a, (a + b) \div 2)}} : TRUE

\* the segment one tombstone short of the compaction trigger
InitChurned ==
  /\ \E metric \in Metrics :
       \E s \in {Churn(SegmentNew(HNSWIndexNew(metric)), 1, Churned)} : SegAssign0(s)
  /\ ret = [op |-> "delete", res |-> Ok("unit")]
  /\ returned = [k \in 1..Churned |-> k]
  /\ tombstoned = 1..Churned
  /\ fvec = [op |-> "new", vector |-> <<>>]
  /\ eval = [op |-> "new"]

\* the segment starts empty, or one tombstone short of the compaction trigger
SpecChurned == (Init \/ InitChurned) /\ [][Next]_vars

\* segment s after six calls: insert of a point at -1, three inserts of points
\* at 2, and the deletes of the first two points at 2.  Every insert draws
\* level 0.
Detached(s) ==
  LET far == [vector |-> <<0 - 1>>, payload |-> None]
      near == [vector |-> <<2>>, payload |-> Some([a |-> PInt(1)])]
      ins(s1, point) == SegmentInsert(s1, point.vector, point.payload, 0, <<>>, <<"a">>).s
      del(s1, id) == SegmentDelete(s1, id, <<>>, <<>>, <<"a">>).s
  IN del(del(ins(ins(ins(ins(s, far), near), near), near), 2), 3)

\* the segment after the six calls of Detached
InitDetached ==
  /\ \E metric \in Metrics :
       \E s \in {Detached(SegmentNew(HNSWIndexNew(metric)))} : SegAssign0(s)
  /\ ret = [op |-> "delete", res |-> Ok("unit")]
  /\ returned = <<1, 2, 3, 4>>
  /\ tombstoned = {2, 3}
  /\ fvec = [op |-> "new", vector |-> <<>>]
  /\ eval = [op |-> "new"]

\* the segment starts empty, or after the six calls of Detached
SpecDetached == (Init \/ InitDetached) /\ [][Next]_vars

\* segment s after five calls of insert, every one drawing level 0: a point
\* at -1 with the fields a and b, two points at 2 with another value of a, a
\* point at 2 with that value of a and with b, whose payload yields a before
\* b, and a point at 2 with the value of a of the first point
Shared(s) ==
  LET far == [vector |-> <<0 - 1>>,
              payload |-> Some([a |-> PInt(2), b |-> PBool(TRUE), t |-> PListInt(<<1>>)])]
      near == [vector |-> <<2>>, payload |-> Some([a |-> PInt(1)])]
      both == [vector |-> <<2>>, payload |-> Some([a |-> PInt(1), b |-> PBool(TRUE)])]
      last == [vector |-> <<2>>, payload |-> Some([a |-> PInt(2)])]
      ins(s1, point) ==
        SegmentInsert(s1, point.vector, point.payload, 0, <<>>, <<"a", "b">>).s
  IN ins(ins(ins(ins(ins(s, far), near), near), both), last)

InitShared ==
  /\ \E metric \in Metrics :
       \E s \in {Shared(SegmentNew(HNSWIndexNew(metric)))} : SegAssign0(s)
  /\ ret = [op |-> "insert", res |-> Ok(5)]
  /\ returned = <<1, 2, 3, 4, 5>>
  /\ tombstoned = {}
  /\ fvec = [op |-> "new", vector |-> <<>>]
  /\ eval = [op |-> "new"]

SpecShared == (Init \/ InitShared) /\ [][Next]_vars

(***************************************************************************)
(* The stored vector of one point of an index with metric Cosine, in f32   *)
(* arithmetic: fvec is the vector the caller passes to Segment::insert,    *)
(* then the vector the index stores for the point, insert after insert.    *)
(***************************************************************************)
\* the dimension of the f32 vectors and the range of their coordinates
FDim == 2
MaxCoord == 7

F32Vectors == [1..FDim -> {F32FromInt(n) : n \in (0 - MaxCoord)..MaxCoord}]

InitF32 ==
  /\ SegAssign0(SegmentNew(HNSWIndexNew("Cosine")))
  /\ ret = [op |-> "new", res |-> Ok("unit")]
  /\ returned = <<>>
  /\ tombstoned = {}
  /\ \E vector \in F32Vectors : fvec = [op |-> "new", vector |-> vector]
  /\ eval = [op |-> "new"]

\* HNSWIndex::insert stores maybe_normalize(vector)
F32Insert ==
  /\ fvec.op = "new"
  /\ fvec.vector # <<>>
  /\ fvec' = [op |-> "insert", vector |-> maybe_normalize_f32(fvec.vector)]
  /\ UNCHANGED <<hnsw, payload_index, payloads, deleted, next_id, ret, returned, tombstoned,
                 eval>>

\* Segment::purge passes the stored vector of a live point to HNSWIndex::insert
\* of the new index
F32Purge ==
  /\ fvec.op \in {"insert", "purge"}
  /\ fvec' = [op |-> "purge", vector |-> maybe_normalize_f32(fvec.vector)]
  /\ UNCHANGED <<hnsw, payload_index, payloads, deleted, next_id, ret, returned, tombstoned,
                 eval>>

NextF32 == F32Insert \/ F32Purge

SpecF32 == InitF32 /\ [][NextF32]_vars

(***************************************************************************)
(* Calls of evaluate_filter and Payload::compare_field on payloads and     *)
(* filters of every shape: eval records the arguments of the call and the  *)
(* Result it returned.  The functions are pure, so one call is made.       *)
(***************************************************************************)
EvalKeys == <<"a", "b", "s", "t", "zz">>

EvalOps == <<"Eq", "Neq", "Lt", "Lte", "Gt", "Gte">>

EvalValues ==
  << PInt(1), PInt(2), PFloat(1), PStr(<<1>>), PBool(TRUE),
     PListStr(<< <<1>>, <<2>> >>), PListInt(<<1>>) >>

\* payloads: empty; one Int; Int, Bool and a list of Int; Str and a list of
\* Str; Float and Str
EvalPayloads ==
  << <<>>,
     [a |-> PInt(1)],
     [a |-> PInt(2), b |-> PBool(TRUE), t |-> PListInt(<<1>>)],
     [a |-> PStr(<<1>>), s |-> PListStr(<< <<1>>, <<2>> >>)],
     [a |-> PFloat(1), s |-> PStr(<<2>>)] >>

\* the children of the And, Or and Not filters evaluated
EvalAtoms ==
  << Match("a", PInt(1)),
     Match("zz", PInt(1)),
     Compare("a", "Gte", PInt(1)),
     Compare("b", "Eq", PBool(TRUE)),
     Compare("zz", "Eq", PInt(1)),
     Compare("s", "Eq", PStr(<<1>>)) >>

EvalChildren ==
  EvalAtoms \o [i \in 1..Len(EvalAtoms) |-> Not(EvalAtoms[i])]
    \o << And(<<EvalAtoms[1], EvalAtoms[5]>>), Or(<<EvalAtoms[1], EvalAtoms[5]>>) >>

\* the longest list of conditions of an And or an Or
MaxConds == 3

EvalCall(filter, payload) ==
  [op |-> "evaluate_filter", filter |-> filter, payload |-> payload,
   res |-> evaluate_filter(filter, payload)]

InitEval ==
  /\ SegAssign0(SegmentNew(HNSWIndexNew("Euclidean")))
  /\ ret = [op |-> "new", res |-> Ok("unit")]
  /\ returned = <<>>
  /\ tombstoned = {}
  /\ fvec = [op |-> "new", vector |-> <<>>]
  /\ eval = [op |-> "new"]

EvalMatch ==
  /\ eval.op = "new"
  /\ \E k \in DOMAIN EvalKeys, v \in DOMAIN EvalValues, p \in DOMAIN EvalPayloads :
       eval' = EvalCall(Match(EvalKeys[k], EvalValues[v]), EvalPayloads[p])
  /\ UNCHANGED <<hnsw, payload_index, payloads, deleted, next_id, ret, returned, tombstoned,
                 fvec>>

EvalCompare ==
  /\ eval.op = "new"
  /\ \E k \in DOMAIN EvalKeys, o \in DOMAIN EvalOps, v \in DOMAIN EvalValues,
        p \in DOMAIN EvalPayloads :
       eval' = EvalCall(Compare(EvalKeys[k], EvalOps[o], EvalValues[v]), EvalPayloads[p])
  /\ UNCHANGED <<hnsw, payload_index, payloads, deleted, next_id, ret, returned, tombstoned,
                 fvec>>

EvalNot ==
  /\ eval.op = "new"
  /\ \E c \in DOMAIN EvalChildren, p \in DOMAIN EvalPayloads :
       eval' = EvalCall(Not(EvalChildren[c]), EvalPayloads[p])
  /\ UNCHANGED <<hnsw, payload_index, payloads, deleted, next_id, ret, returned, tombstoned,
                 fvec>>

EvalAndOr ==
  /\ eval.op = "new"
  /\ \E n \in 0..MaxConds, p \in DOMAIN EvalPayloads :
       \E cs \in [1..n -> DOMAIN EvalChildren] :
         LET conds == [j \in 1..n |-> EvalChildren[cs[j]]]
         IN \/ eval' = EvalCall(And(conds), EvalPayloads[p])
            \/ eval' = EvalCall(Or(conds), EvalPayloads[p])
  /\ UNCHANGED <<hnsw, payload_index, payloads, deleted, next_id, ret, returned, tombstoned,
                 fvec>>

CompareField ==
  /\ eval.op = "new"
  /\ \E k \in DOMAIN EvalKeys, o \in DOMAIN EvalOps, v \in DOMAIN EvalValues,
        p \in DOMAIN EvalPayloads :
       eval' = [op |-> "compare_field", payload |-> EvalPayloads[p], field |-> EvalKeys[k],
                cmp |-> EvalOps[o], other |-> EvalValues[v],
                res |-> compare_field(EvalPayloads[p], EvalKeys[k], EvalOps[o],
                                      EvalValues[v])]
  /\ UNCHANGED <<hnsw, payload_index, payloads, deleted, next_id, ret, returned, tombstoned,
                 fvec>>

NextEval == EvalMatch \/ EvalCompare \/ EvalNot \/ EvalAndOr \/ CompareField

SpecEval == InitEval /\ [][NextEval]_vars

(***************************************************************************)
(* Calls of PayloadIndex::insert and PayloadIndex::remove on one index, in *)
(* any order and with any arguments: payload_index is the index, eval the  *)
(* last call.                                                              *)
(***************************************************************************)
\* payloads: none; scalars; scalars and a list; lists only; a list under a
\* field that holds a scalar in other payloads
IndexPayloads ==
  << <<>>,
     [a |-> PInt(1)],
     [a |-> PInt(2), b |-> PBool(TRUE)],
     [a |-> PFloat(1), t |-> PListInt(<<1>>)],
     [t |-> PListStr(<< <<1>> >>), u |-> PListInt(<<1, 2>>)],
     [b |-> PBool(TRUE), s |-> PStr(<<1>>)],
     [a |-> PListInt(<<1>>)] >>

IndexCall(op, point_id, payload) == [op |-> op, point_id |-> point_id, payload |-> payload]

IndexInsert ==
  /\ \E point_id \in Ids, p \in DOMAIN IndexPayloads :
       /\ payload_index' = PayloadIndexInsert(payload_index, point_id, IndexPayloads[p])
       /\ eval' = IndexCall("insert", point_id, IndexPayloads[p])
  /\ UNCHANGED <<hnsw, payloads, deleted, next_id, ret, returned, tombstoned, fvec>>

IndexRemove ==
  /\ \E point_id \in Ids, p \in DOMAIN IndexPayloads :
       /\ payload_index' = PayloadIndexRemove(payload_index, point_id, IndexPayloads[p])
       /\ eval' = IndexCall("remove", point_id, IndexPayloads[p])
  /\ UNCHANGED <<hnsw, payloads, deleted, next_id, ret, returned, tombstoned, fvec>>

NextIndex == IndexInsert \/ IndexRemove

SpecIndex == InitEval /\ [][NextIndex]_vars

(***************************************************************************)
(* The properties.  The searches are read-only: each is asked in every     *)
(* reachable state, with every query of Queries, every top_k of TopKs,     *)
(* every filter of Filters and every iteration order of the hash           *)
(* containers.                                                             *)
(***************************************************************************)
\* the filter arguments, Option<&Filter>: None, then Some of every filter
FilterArgs == <<None>> \o [i \in 1..Len(Filters) |-> Some(Filters[i])]

\* the ids of a Vec<ScoredPoint>
ResultIds(points) == {points[k].id : k \in 1..Len(points)}

\* the iteration orders a search may meet in segment s
Orders(s) == Perms(Live(s))

\* C1: once delete(i) has returned Ok for an inserted id i, in every later
\* state no result of Segment.search or Segment.post_filter contains i, and
\* Segment.get_vector(i) is None.
C1_DeletionInvisibility ==
  \A i \in tombstoned :
    /\ SegmentGetVector(Seg, i) = None
    /\ \A query \in Queries, top_k \in TopKs, ord \in Orders(Seg) :
         /\ \E r \in {SegmentSearch(Seg, query, top_k, ord)} :
              r.ok => i \notin ResultIds(r.val)
         /\ \A fi \in DOMAIN FilterArgs :
              \E r \in {post_filter(Seg, query, top_k, FilterArgs[fi], ord)} :
                r.ok => i \notin ResultIds(r.val)

\* a tombstoned point is still stored in the graph, linked to a live point,
\* and a search returns the live point
C1_Witness ==
  \E i \in tombstoned, j \in Live(Seg) :
    /\ i \in DOMAIN hnsw.vectors
    /\ Contains(Adjacent(hnsw, 0, j), i)
    /\ \E query \in Queries, ord \in Orders(Seg) :
         \E r \in {SegmentSearch(Seg, query, 2, ord)} : r.ok /\ ResultIds(r.val) = {j}

\* payload p exists for id and evaluates to Ok(true) under filter f
Satisfies(s, id, f) ==
  /\ id \in DOMAIN s.payloads
  /\ evaluate_filter(f, s.payloads[id]) = Ok(TRUE)

\* C2: every id Segment.post_filter returns for Some(filter) is live, has a
\* stored payload, and that payload evaluates to Ok(true) under the filter.
C2_PostFilterSound ==
  \A query \in Queries, top_k \in TopKs, ord \in Orders(Seg), fi \in DOMAIN Filters :
    \E r \in {post_filter(Seg, query, top_k, Some(Filters[fi]), ord)} :
      r.ok => \A id \in ResultIds(r.val) :
                id \notin deleted /\ Satisfies(Seg, id, Filters[fi])

\* post_filter returns one live point and leaves out another live point,
\* which has no payload or fails the filter
C2_Witness ==
  \E query \in Queries, ord \in Orders(Seg), fi \in DOMAIN Filters :
    \E r \in {post_filter(Seg, query, 2, Some(Filters[fi]), ord)} :
      /\ r.ok /\ Len(r.val) = 1
      /\ \E id \in Live(Seg) : ~Satisfies(Seg, id, Filters[fi])

\* C3: every id the in-place filtered search returns for Some(filter) has a
\* payload that satisfies the filter, the seed point included.
C3_InPlaceSound ==
  \A query \in Queries, top_k \in TopKs, ord \in Orders(Seg), fi \in DOMAIN Filters :
    \E r \in {in_place_filtered_search(query, top_k, hnsw, payloads, payload_index,
                                       Some(Filters[fi]), deleted, ord)} :
      r.ok => \A id \in ResultIds(r.val) : Satisfies(Seg, id, Filters[fi])

\* C4: Segment.search and Segment.post_filter return Err(SearchError) exactly
\* when the segment has no live point.
C4_SearchErrorIffEmpty ==
  \A query \in Queries, top_k \in TopKs, ord \in Orders(Seg) :
    /\ SegmentSearch(Seg, query, top_k, ord) = Err(SearchError) <=> Live(Seg) = {}
    /\ \A fi \in DOMAIN FilterArgs :
         post_filter(Seg, query, top_k, FilterArgs[fi], ord) = Err(SearchError)
           <=> Live(Seg) = {}

\* every inserted point is tombstoned but still stored, and search reports
\* SearchError
C4_Witness ==
  /\ DOMAIN hnsw.vectors # {}
  /\ Live(Seg) = {}
  /\ \A query \in Queries : SegmentSearch(Seg, query, 1, <<>>) = Err(SearchError)

\* the inverted index holds id under (field, value)
Indexed(s, id, field, value) ==
  /\ field \in DOMAIN s.payload_index
  /\ \E x \in DOMAIN s.payload_index[field] :
       ValEq(x, value) /\ id \in s.payload_index[field][x]

\* id is live and its stored payload has the scalar value at field
HasScalar(s, id, field, value) ==
  /\ id \in Live(s)
  /\ id \in DOMAIN s.payloads
  /\ field \in DOMAIN s.payloads[id]
  /\ is_indexable(s.payloads[id][field])
  /\ ValEq(s.payloads[id][field], value)

\* the (field, value) pairs the index or a stored payload mentions
FieldsOf(s) == DOMAIN s.payload_index \cup UNION {DOMAIN s.payloads[id] : id \in DOMAIN s.payloads}

ValuesAt(s, field) ==
  (IF field \in DOMAIN s.payload_index THEN DOMAIN s.payload_index[field] ELSE {})
    \cup {s.payloads[id][field] : id \in {x \in DOMAIN s.payloads : field \in DOMAIN s.payloads[x]}}

\* C5: after every insert, delete or purge that returns Ok, the inverted
\* index contains id under (field, value) if and only if id is live and its
\* stored payload has a scalar value equal to value at field.
C5_IndexIffLiveScalar ==
  ret.res.ok =>
    \A id \in Ids, field \in FieldsOf(Seg) :
      \A value \in ValuesAt(Seg, field) :
        Indexed(Seg, id, field, value) <=> HasScalar(Seg, id, field, value)

\* a delete has just removed a point with a payload from the index while
\* another point stays indexed under the same field
C5_Witness ==
  /\ ret.op = "delete" /\ ret.res.ok
  /\ \E i \in deleted, j \in Live(Seg) :
       /\ i \in DOMAIN payloads /\ j \in DOMAIN payloads
       /\ Indexed(Seg, j, "a", payloads[j]["a"])
       /\ ~Indexed(Seg, i, "a", payloads[i]["a"])

\* C6: after every insert, delete or purge returns, Segment.deleted equals
\* HNSWIndex.deleted.
C6_TombstoneSetsEqual == deleted = hnsw.deleted

\* a delete has just set off the purge: the hundredth tombstone is gone from
\* both sets and from the index, and the one live point stays
C6_Witness ==
  /\ ret.op = "delete" /\ ret.res.ok
  /\ Cardinality(tombstoned) = MIN_DELETIONS_BEFORE_PURGE
  /\ hnsw.deleted = {}
  /\ Cardinality(DOMAIN hnsw.vectors) = 1

\* C7: after every operation that returns Ok, an entry point Some(e) is a key
\* of vectors and levels[e] equals current_max_level.
C7_EntryPointAtMaxLevel ==
  ret.res.ok /\ hnsw.entry_point # None =>
    /\ Unwrap(hnsw.entry_point) \in DOMAIN hnsw.vectors
    /\ hnsw.levels[Unwrap(hnsw.entry_point)] = hnsw.current_max_level

\* C8: after every operation that returns Ok, vectors and levels have the same
\* keys, and every id of vectors has an adjacency entry in layers[l] for every
\* l in 0..levels[id].
C8_LevelsAndAdjacency ==
  ret.res.ok =>
    /\ DOMAIN hnsw.vectors = DOMAIN hnsw.levels
    /\ \A id \in DOMAIN hnsw.vectors : \A l \in 0..hnsw.levels[id] :
         l \in DOMAIN hnsw.layers /\ id \in DOMAIN hnsw.layers[l]

\* two points are stored, one of them on level 1
C8_Witness ==
  /\ ret.res.ok
  /\ Cardinality(DOMAIN hnsw.vectors) = 2
  /\ \E id \in DOMAIN hnsw.vectors : hnsw.levels[id] = 1 /\ id \in DOMAIN hnsw.layers[1]

\* C9: after every operation that returns Ok, both ends of every directed
\* edge a -> b stored in any layer are keys of vectors.
C9_EdgeEndsStored ==
  ret.res.ok =>
    \A l \in DOMAIN hnsw.layers : \A a \in DOMAIN hnsw.layers[l] :
      /\ a \in DOMAIN hnsw.vectors
      /\ Range(hnsw.layers[l][a]) \subseteq DOMAIN hnsw.vectors

\* a purge has dropped a tombstoned point, and the rebuilt graph holds the
\* edges the filter-aware builder added for the point that stays
C9_Witness ==
  /\ ret.op = "purge" /\ ret.res.ok
  /\ tombstoned \ DOMAIN hnsw.vectors # {}
  /\ \E a \in DOMAIN hnsw.vectors :
       /\ a \in DOMAIN payloads
       /\ Len(hnsw.layers[0][a]) > 1

\* the step is a call of Segment.insert that returned Ok
InsertedOk == ret'.op = "insert" /\ ret'.res.ok

\* C10: the k-th successful insert returns k; a failed insert, a delete and a
\* purge leave the counter as it is.
C10_IdsSequential ==
  /\ [](returned = [k \in 1..Len(returned) |-> k] /\ next_id = Len(returned) + 1)
  /\ [][IF InsertedOk THEN ret'.res.val = next_id /\ next_id' = next_id + 1
        ELSE next_id' = next_id]_vars

\* an insert returns 2 after the holder of id 1 was purged
C10_Witness ==
  /\ ret.op = "insert" /\ ret.res.ok /\ ret.res.val = 2
  /\ 1 \in tombstoned \ DOMAIN hnsw.vectors

\* the arguments of the hypothetical insert calls: every vector of Points
\* and the empty vector
InsertVectors == {point.vector : point \in Points} \cup {<<>>}

\* C11: an insert of a vector of the wrong length under an id not yet present
\* returns Err(VectorLengthMismatch{expected: dim, actual: len}) and leaves
\* the state as it was: at the index vectors, levels, layers, entry point and
\* current_max_level, at the segment also payloads, the inverted index and
\* next_id, a payload being supplied or not.
C11_MismatchLeavesState ==
  \A vector \in {v \in InsertVectors : Len(v) # Dim}, level \in Levels :
    /\ \A point_id \in (1..(MaxPoints + 1)) \ DOMAIN hnsw.vectors :
         \E r \in {insert(hnsw, point_id, vector, level, <<>>)} :
           /\ ~r.ok /\ r.h = hnsw
           /\ r.err.kind = "VectorLengthMismatch"
           /\ r.err.expected = Dim /\ r.err.actual = Len(vector)
    /\ \A point \in Points : \A korder \in KeyOrders(Range(point.payload)) :
         \E r \in {SegmentInsert(Seg, vector, point.payload, level, <<>>, korder)} :
           /\ ~r.res.ok /\ r.s = Seg
           /\ r.res.err.kind = "VectorLengthMismatch"
           /\ r.res.err.expected = Dim /\ r.res.err.actual = Len(vector)

\* an insert with a payload has just failed on a segment that holds a point
\* with a payload, and has left the counter at 2
C11_Witness ==
  /\ ret.op = "insert" /\ ~ret.res.ok
  /\ ret.res.err = VectorLengthMismatch(Dim, 2)
  /\ next_id = 2 /\ 1 \in DOMAIN payloads

\* C12: HNSWIndex::insert under an id already in vectors, live or tombstoned,
\* returns Ok and leaves vectors, levels, layers, entry point,
\* current_max_level and the tombstone set as they were, whatever the vector.
C12_ReinsertIsNoOp ==
  \A point_id \in DOMAIN hnsw.vectors, vector \in InsertVectors, level \in Levels :
    \A ord \in Orders(Seg) :
      insert(hnsw, point_id, vector, level, ord) = HOk(hnsw)

\* the index holds a live point and a tombstoned point, and an insert under
\* either id with a new vector returns Ok
C12_Witness ==
  /\ hnsw.deleted # {} /\ Live(Seg) # {}
  /\ \A point_id \in DOMAIN hnsw.vectors :
       /\ hnsw.vectors[point_id] # <<0>>
       /\ insert(hnsw, point_id, <<0>>, 1, <<>>).ok

\* C13: Segment::delete of an id that is tombstoned, purged or was never
\* inserted returns Ok and leaves the whole segment as it was, compaction
\* not run; a second delete of an id leaves the state of the first.
C13_DeleteIsIdempotent ==
  /\ \A point_id \in (1..(MaxPoints + 1)) \ Live(Seg) : \A ord \in Orders(Seg) :
       SegmentDelete(Seg, point_id, <<>>, ord, <<>>) = [res |-> Ok("unit"), s |-> Seg]
  /\ \A point_id \in Live(Seg) : \A ord \in Perms(Live(Seg) \ {point_id}) :
       \E once \in {SegmentDelete(Seg, point_id, <<>>, ord, <<>>)} :
         SegmentDelete(once.s, point_id, <<>>, ord, <<>>) = [res |-> Ok("unit"), s |-> once.s]

\* the segment knows an id of each kind: 1 was purged, 2 is tombstoned and
\* still stored with its payload, 3 was never inserted
C13_Witness ==
  /\ ret.op = "delete" /\ ret.res.ok
  /\ 1 \in tombstoned \ DOMAIN hnsw.vectors
  /\ 2 \in deleted /\ 2 \in DOMAIN hnsw.vectors /\ 2 \in DOMAIN payloads
  /\ next_id = 3

\* the step is a purge that returned Ok and kept, in exact arithmetic, what was
\* live: ids, vectors and payloads; dropped what was tombstoned; emptied both
\* tombstone sets; and left next_id
PurgeKeepsSegment ==
  ret'.op = "purge" /\ ret'.res.ok =>
    /\ DOMAIN hnsw'.vectors = Live(Seg)
    /\ \A id \in Live(Seg) : hnsw'.vectors[id] = hnsw.vectors[id]
    /\ payloads' = Restrict(payloads, Live(Seg) \cap DOMAIN payloads)
    /\ \A id \in deleted :
         /\ id \notin DOMAIN hnsw'.vectors \cup DOMAIN payloads'
         /\ \A field \in DOMAIN payload_index' :
              \A value \in DOMAIN payload_index'[field] : id \notin payload_index'[field][value]
    /\ deleted' = {} /\ hnsw'.deleted = {}
    /\ next_id' = next_id

\* the step is a purge that stored, in f32 arithmetic, the vector that was
\* stored before
PurgeKeepsF32 == fvec'.op = "purge" => fvec'.vector = fvec.vector

\* C14: after Segment.purge returns Ok the stored ids are exactly the ids live
\* before, each with the same vector and the same payload (or none) as before;
\* every tombstoned id is absent from vectors, payloads and the inverted
\* index; both tombstone sets are empty and next_id is unchanged.
C14_PurgeKeepsLive == [][PurgeKeepsSegment /\ PurgeKeepsF32]_vars

\* the claim of C14 about ids, payloads, tombstones and next_id, and about
\* the vectors in exact arithmetic
C14_PurgeKeepsLiveExact == [][PurgeKeepsSegment]_vars

\* a purge has dropped a tombstoned point and kept a live one with its payload
C14_WitnessExact ==
  /\ ret.op = "purge" /\ ret.res.ok
  /\ tombstoned \ DOMAIN hnsw.vectors # {}
  /\ \E id \in DOMAIN hnsw.vectors : id \in DOMAIN payloads

\* the step is a purge that either returned Ok and replaced the index, the
\* inverted index, the payloads and the tombstone set together, each by what
\* the live points alone give, or returned an error and left all four
PurgeAllOrNothing ==
  ret'.op = "purge" =>
    IF ret'.res.ok
    THEN /\ DOMAIN hnsw'.vectors = Live(Seg)
         /\ hnsw'.deleted = {}
         /\ \A l \in DOMAIN hnsw'.layers : \A a \in DOMAIN hnsw'.layers[l] :
              {a} \cup Range(hnsw'.layers[l][a]) \subseteq Live(Seg)
         /\ payloads' = Restrict(payloads, Live(Seg) \cap DOMAIN payloads)
         /\ \A field \in FieldsOf(Seg) \cup FieldsOf(Seg') :
              \A value \in ValuesAt(Seg, field) \cup ValuesAt(Seg', field), id \in DOMAIN hnsw.vectors :
                Indexed(Seg', id, field, value) <=> HasScalar(Seg, id, field, value)
         /\ deleted' = {}
    ELSE UNCHANGED <<hnsw, payload_index, payloads, deleted>>

\* C15: Segment.purge is all-or-nothing: hnsw, payload_index, payloads and
\* deleted are replaced together, after every live point was reinserted into
\* the new structures; if a reinsertion fails, purge returns the error and all
\* four fields are as before.  No state with some of them replaced is seen.
C15_PurgeAllOrNothing == [][PurgeAllOrNothing]_vars

\* a purge has replaced all four: a tombstoned point with a payload is gone
\* from the index and the payloads, and a live point is still indexed
C15_Witness ==
  /\ ret.op = "purge" /\ ret.res.ok
  /\ deleted = {}
  /\ \E i \in tombstoned, j \in DOMAIN hnsw.vectors :
       /\ i \notin DOMAIN hnsw.vectors \cup DOMAIN payloads
       /\ j \in DOMAIN payloads
       /\ Indexed(Seg, j, "a", payloads[j]["a"])
       /\ Len(returned) = 2

\* the step is a delete that newly tombstones id; with id counted there are
\* count tombstones among total stored vectors.  Either both thresholds are
\* met and the call has compacted: no tombstone is left and no tombstoned
\* point is stored; or the call has only tombstoned id, which stays stored
\* and linked in the graph as it was.
DeleteCompactsAtThresholds ==
  \A id \in tombstoned' \ tombstoned :
    LET count == Cardinality(deleted) + 1
        total == Cardinality(DOMAIN hnsw.vectors)
    IN IF count >= 100 /\ 4 * count >= total
       THEN /\ deleted' = {}
            /\ DOMAIN hnsw'.vectors = Live(Seg) \ {id}
       ELSE /\ deleted' = deleted \cup {id}
            /\ hnsw'.vectors = hnsw.vectors
            /\ hnsw'.layers = hnsw.layers

NonDecreasing(metric, points) ==
  \A k \in 1..(Len(points) - 1) :
    /\ points[k].sort_key <= points[k + 1].sort_key
    /\ metric # "Dot" => points[k].raw_score <= points[k + 1].raw_score

\* C17: the result list of HNSWIndex.search, Segment.search and
\* Segment.post_filter is in non-decreasing order of sort key (for Euclidean
\* and Cosine, of raw distance), in every reachable state, for every query and
\* top_k.
C17_ResultsSorted ==
  \A query \in Queries, top_k \in TopKs, ord \in Orders(Seg) :
    /\ \E r \in {search(hnsw, query, top_k, ord)} :
         r.ok => NonDecreasing(hnsw.metric, r.val)
    /\ \E r \in {SegmentSearch(Seg, query, top_k, ord)} :
         r.ok => NonDecreasing(hnsw.metric, r.val)
    /\ \A fi \in DOMAIN FilterArgs :
         \E r \in {post_filter(Seg, query, top_k, FilterArgs[fi], ord)} :
           r.ok => NonDecreasing(hnsw.metric, r.val)

\* all three searches return two points with different sort keys
C17_Witness ==
  \E query \in Queries, fi \in DOMAIN FilterArgs :
    \E r \in {<<search(hnsw, query, 2, <<>>), SegmentSearch(Seg, query, 2, <<>>),
                post_filter(Seg, query, 2, FilterArgs[fi], <<>>)>>} :
      \A k \in 1..3 :
        /\ r[k].ok
        /\ Len(r[k].val) = 2
        /\ r[k].val[1].sort_key < r[k].val[2].sort_key

\* the list has at most top_k entries, no id twice, and at most as many
\* entries as segment s has live ids
Bounded(s, points, top_k) ==
  /\ Len(points) <= top_k
  /\ \A j, k \in 1..Len(points) : points[j].id = points[k].id => j = k
  /\ Len(points) <= Cardinality(Live(s))

\* C18: the result of HNSWIndex.search, Segment.search, Segment.post_filter
\* and in_place_filtered_search has at most top_k entries, holds no id twice,
\* and has at most as many entries as there are live ids.
C18_ResultsBounded ==
  \A query \in Queries, top_k \in TopKs, ord \in Orders(Seg) :
    /\ \E r \in {search(hnsw, query, top_k, ord)} :
         r.ok => Bounded(Seg, r.val, top_k)
    /\ \E r \in {SegmentSearch(Seg, query, top_k, ord)} :
         r.ok => Bounded(Seg, r.val, top_k)
    /\ \A fi \in DOMAIN FilterArgs :
         /\ \E r \in {post_filter(Seg, query, top_k, FilterArgs[fi], ord)} :
              r.ok => Bounded(Seg, r.val, top_k)
         /\ \E r \in {in_place_filtered_search(query, top_k, hnsw, payloads, payload_index,
                                                 FilterArgs[fi], deleted, ord)} :
              r.ok => Bounded(Seg, r.val, top_k)

\* two points are live; with top_k = 1 all four searches return one of them,
\* with top_k = 2 both
C18_Witness ==
  /\ Cardinality(Live(Seg)) = 2
  /\ \E query \in Queries :
       \A top_k \in TopKs :
         \E r \in {<<search(hnsw, query, top_k, <<>>), SegmentSearch(Seg, query, top_k, <<>>),
                     post_filter(Seg, query, top_k, None, <<>>),
                     in_place_filtered_search(query, top_k, hnsw, payloads, payload_index,
                                              None, deleted, <<>>)>>} :
           \A k \in 1..4 : r[k].ok /\ Len(r[k].val) = top_k

\* the first entry of a search for the vector of the live id i: under
\* Euclidean and Cosine a point at distance 0 that stores the vector of i,
\* under Dot a point whose raw dot product with the query is maximal among
\* the live points
RecallsOwnVector(s, i, r) ==
  /\ r.ok
  /\ r.val # <<>>
  /\ IF s.hnsw.metric = "Dot"
     THEN \A j \in Live(s) :
            r.val[1].raw_score >= DotProduct(s.hnsw.vectors[i], s.hnsw.vectors[j])
     ELSE /\ r.val[1].raw_score = 0
          /\ s.hnsw.vectors[r.val[1].id] = s.hnsw.vectors[i]

\* C19: in every reachable state, for every id i that was inserted and is not
\* deleted, a search with the vector of i and top_k >= 1 returns as first
\* result a point at distance 0 from the query (i itself or a point with an
\* identical vector) under Euclidean and Cosine, and under Dot a point whose
\* raw dot product with the query is maximal among the live points.
C19_ExactMatchRecall ==
  \A i \in Live(Seg), top_k \in TopKs, ord \in Orders(Seg) :
    /\ RecallsOwnVector(Seg, i, search(hnsw, hnsw.vectors[i], top_k, ord))
    /\ RecallsOwnVector(Seg, i, SegmentSearch(Seg, hnsw.vectors[i], top_k, ord))

\* every entry of the list carries as raw_score the metric value between the
\* query and the vector stored for its id, under Dot the plain dot product,
\* and as sort_key the raw score, negated under Dot; under Dot an entry with a
\* larger dot product comes before one with a smaller
ScoredByMetric(s, query, points) ==
  /\ \A k \in 1..Len(points) :
       /\ points[k].raw_score = score(query, s.hnsw.vectors[points[k].id], s.hnsw.metric)
       /\ s.hnsw.metric = "Dot" =>
            /\ points[k].raw_score = DotProduct(query, s.hnsw.vectors[points[k].id])
            /\ points[k].sort_key = 0 - points[k].raw_score
       /\ s.hnsw.metric # "Dot" => points[k].sort_key = points[k].raw_score
  /\ s.hnsw.metric = "Dot" =>
       \A j, k \in 1..Len(points) :
         DotProduct(query, s.hnsw.vectors[points[j].id])
           > DotProduct(query, s.hnsw.vectors[points[k].id]) => j < k

\* C20: every ScoredPoint a search returns carries raw_score equal to the
\* metric value between the query and the stored vector, and sort_key equal to
\* raw_score for Euclidean and Cosine and to its negation for Dot, where the
\* Dot raw value is the plain dot product; so under Dot a stored vector with a
\* larger dot product with the query is ranked before one with a smaller.
C20_ScoresAndSortKeys ==
  \A query \in Queries, top_k \in TopKs, ord \in Orders(Seg) :
    /\ \E r \in {search(hnsw, query, top_k, ord)} :
         r.ok => ScoredByMetric(Seg, query, r.val)
    /\ \E r \in {SegmentSearch(Seg, query, top_k, ord)} :
         r.ok => ScoredByMetric(Seg, query, r.val)
    /\ \A fi \in DOMAIN FilterArgs :
         /\ \E r \in {post_filter(Seg, query, top_k, FilterArgs[fi], ord)} :
              r.ok => ScoredByMetric(Seg, query, r.val)
         /\ \E r \in {in_place_filtered_search(query, top_k, hnsw, payloads, payload_index,
                                                 FilterArgs[fi], deleted, ord)} :
              r.ok => ScoredByMetric(Seg, query, r.val)

\* the claim of C20 without the ranking of the in-place search: the scores and
\* sort keys of all four searches, and the ranking under Dot of
\* HNSWIndex.search, Segment.search and Segment.post_filter
C20_ScoresExceptInPlaceRanking ==
  \A query \in Queries, top_k \in TopKs, ord \in Orders(Seg) :
    /\ \E r \in {search(hnsw, query, top_k, ord)} :
         r.ok => ScoredByMetric(Seg, query, r.val)
    /\ \E r \in {SegmentSearch(Seg, query, top_k, ord)} :
         r.ok => ScoredByMetric(Seg, query, r.val)
    /\ \A fi \in DOMAIN FilterArgs :
         /\ \E r \in {post_filter(Seg, query, top_k, FilterArgs[fi], ord)} :
              r.ok => ScoredByMetric(Seg, query, r.val)
         /\ \E r \in {in_place_filtered_search(query, top_k, hnsw, payloads, payload_index,
                                                 FilterArgs[fi], deleted, ord)} :
              r.ok => \A k \in 1..Len(r.val) : ScoredByMetric(Seg, query, <<r.val[k]>>)

\* the result of evaluating the j-th condition of a list on a payload
ChildResult(conds, j, payload) == evaluate_filter(conds[j], payload)

\* no condition before the j-th failed or decided an And (by false) or an
\* Or (by true)
Undecided(type, conds, j, payload) ==
  \A k \in 1..(j - 1) :
    /\ ChildResult(conds, k, payload).ok
    /\ ChildResult(conds, k, payload).val = (type = "And")

\* C22: on a payload without the key, evaluate_filter returns Ok(false) for a
\* Match and Err(InvalidPayload) for a Compare; a Not returns the error of
\* its inner filter unchanged; an And or an Or returns the error of a
\* condition unchanged when no earlier condition failed or decided the
\* result, and the decided result when an earlier condition decided it.
C22_MissingKey ==
  eval.op = "evaluate_filter" =>
    LET f == eval.filter
        p == eval.payload
    IN /\ (f.type = "Match" /\ f.key \notin DOMAIN p) => eval.res = Ok(FALSE)
       /\ (f.type = "Compare" /\ f.key \notin DOMAIN p) => eval.res = Err(InvalidPayload)
       /\ (f.type = "Not" /\ ~evaluate_filter(f.inner, p).ok)
            => eval.res = evaluate_filter(f.inner, p)
       /\ f.type \in {"And", "Or"} =>
            \A j \in DOMAIN f.conds :
              Undecided(f.type, f.conds, j, p) =>
                /\ ~ChildResult(f.conds, j, p).ok => eval.res = ChildResult(f.conds, j, p)
                /\ (/\ ChildResult(f.conds, j, p).ok
                    /\ ChildResult(f.conds, j, p).val = (f.type = "Or"))
                     => eval.res = Ok(f.type = "Or")

\* an Or whose first condition is a Match on a missing key (false, so not
\* decided) and whose second is a Compare on a missing key returned the error
C22_Witness ==
  /\ eval.op = "evaluate_filter"
  /\ eval.filter.type = "Or"
  /\ Len(eval.filter.conds) >= 2
  /\ eval.filter.conds[1].type = "Match"
  /\ eval.filter.conds[1].key \notin DOMAIN eval.payload
  /\ eval.filter.conds[2].type = "Compare"
  /\ eval.filter.conds[2].key \notin DOMAIN eval.payload
  /\ eval.res = Err(InvalidPayload)

\* filter f fails on the stored payload of some live point of segment s
FailsOnLive(s, f) ==
  \E id \in Live(s) \cap DOMAIN s.payloads : ~evaluate_filter(f, s.payloads[id]).ok

\* the search returned Ok, and every point of the list satisfies the filter
SkipsErrors(s, f, r) ==
  /\ r.ok
  /\ \A k \in 1..Len(r.val) : Satisfies(s, r.val[k].id, f)

\* C23: when evaluate_filter returns Err on the payload of some live point,
\* Segment.post_filter and in_place_filtered_search both return Ok, with a
\* list of points that satisfy the filter: the failing point is skipped.
C23_FilterErrorsSkipped ==
  \A query \in Queries, top_k \in TopKs, fi \in DOMAIN Filters, ord \in Orders(Seg) :
    FailsOnLive(Seg, Filters[fi]) =>
      /\ \E r \in {post_filter(Seg, query, top_k, Some(Filters[fi]), ord)} :
           SkipsErrors(Seg, Filters[fi], r)
      /\ \E r \in {in_place_filtered_search(query, top_k, hnsw, payloads, payload_index,
                                              Some(Filters[fi]), deleted, ord)} :
           SkipsErrors(Seg, Filters[fi], r)

\* the half of C23 about Segment.post_filter
C23_PostFilterSkipsErrors ==
  \A query \in Queries, top_k \in TopKs, fi \in DOMAIN Filters, ord \in Orders(Seg) :
    FailsOnLive(Seg, Filters[fi]) =>
      \E r \in {post_filter(Seg, query, top_k, Some(Filters[fi]), ord)} :
        SkipsErrors(Seg, Filters[fi], r)

\* the comparison operators compare_scalar defines for a value of the tag
OpsOf(tag) ==
  CASE tag \in {"Int", "Float", "Str"} -> {"Eq", "Neq", "Lt", "Lte", "Gt", "Gte"}
    [] tag = "Bool" -> {"Eq", "Neq"}
    [] OTHER -> {}

\* what C24 says of one call compare_field(field, cmp, other) on payload
\* that returned res
TypedComparison(payload, field, cmp, other, res) ==
  /\ field \notin DOMAIN payload => res = Err(InvalidPayload)
  /\ (field \in DOMAIN payload /\ payload[field].tag # other.tag) => res = Err(InvalidPayload)
  /\ res.ok =>
       /\ field \in DOMAIN payload
       /\ payload[field].tag = other.tag
       /\ cmp \in OpsOf(other.tag)
       /\ res.val \in BOOLEAN

\* C24: Payload.compare_field returns Err(InvalidPayload) when the field is
\* missing and whenever the tag of the stored value differs from the tag of
\* the value compared with, a stored list against a scalar included; it
\* returns Ok(bool) only when both have the same scalar type and the operator
\* is defined for that type.
C24_CompareFieldTyped ==
  eval.op = "compare_field" =>
    TypedComparison(eval.payload, eval.field, eval.cmp, eval.other, eval.res)

\* C24 for the calls on a field that does not hold a list of Str
C24_ExceptListStr ==
  (/\ eval.op = "compare_field"
   /\ eval.field \in DOMAIN eval.payload => eval.payload[eval.field].tag # "ListStr")
    => TypedComparison(eval.payload, eval.field, eval.cmp, eval.other, eval.res)

\* the index holds no field without a value and no value without an id
NoEmptyEntry(index) ==
  \A k \in DOMAIN index :
    /\ DOMAIN index[k] # {}
    /\ \A v \in DOMAIN index[k] : index[k][v] # {}

\* a remove that took the last id under (field, value) left query_exact
\* None, and one that took the last value under the field left all_for_key
\* None
LastRemoved(index, point_id, payload, index1) ==
  \A k \in IndexableKeys(payload) \cap DOMAIN index :
    /\ (payload[k] \in DOMAIN index[k] /\ index[k][payload[k]] = {point_id})
         => query_exact(index1, k, payload[k]) = None
    /\ (DOMAIN index[k] = {payload[k]} /\ index[k][payload[k]] = {point_id})
         => all_for_key(index1, k) = None

\* C25: after any sequence of PayloadIndex.insert and PayloadIndex.remove the
\* index stores no empty id set and no empty field map: a remove of the last
\* id under (field, value) leaves query_exact(field, value) None, and a remove
\* of the last value under a field leaves all_for_key(field) None.
C25_NoEmptyEntries ==
  [][/\ NoEmptyEntry(payload_index')
     /\ eval'.op = "remove"
          => LastRemoved(payload_index, eval'.point_id, eval'.payload, payload_index')]_vars

\* field s is indexed, so field b was indexed with it; after a remove of a
\* payload with field b no entry of b is left, while s is still indexed
C25_Witness ==
  /\ eval.op = "remove"
  /\ "b" \in DOMAIN eval.payload
  /\ "b" \notin DOMAIN payload_index
  /\ "s" \in DOMAIN payload_index

\* C26: PayloadIndex.insert is idempotent: after an insert of (id, payload),
\* inserting the same (id, payload) again leaves the index as it is.
C26_InsertIdempotent ==
  [][eval'.op = "insert" =>
       PayloadIndexInsert(payload_index', eval'.point_id, eval'.payload) = payload_index']_vars

\* an insert added an id to the id set of a value that already held another
C26_Witness ==
  /\ eval.op = "insert"
  /\ "a" \in DOMAIN eval.payload
  /\ "a" \in DOMAIN payload_index
  /\ eval.payload["a"] \in DOMAIN payload_index["a"]
  /\ payload_index["a"][eval.payload["a"]] = Ids

\* the list variants of PayloadValue
ListTags == {"ListInt", "ListFloat", "ListStr", "ListBool"}

\* the fields of the payload that hold a list
ListFields(payload) == {k \in DOMAIN payload : payload[k].tag \in ListTags}

\* the fields that hold a list in every payload of IndexPayloads that has them
ListOnlyFields ==
  {k \in UNION {DOMAIN IndexPayloads[p] : p \in DOMAIN IndexPayloads} :
     \A p \in DOMAIN IndexPayloads :
       k \in DOMAIN IndexPayloads[p] => k \in ListFields(IndexPayloads[p])}

\* the elements of a list value, as scalar values
ElementsOf(value) ==
  {[tag |-> IF value.tag = "ListInt" THEN "Int" ELSE "Str", v |-> value.v[i]] :
     i \in 1..Len(value.v)}

\* no entry of the index has a list as its value, and for each list field of
\* each payload: query_exact with the list is None; if the field holds a list
\* in every payload, query_exact with an element of the list and all_for_key
\* are None
ListsNotIndexed(index) ==
  /\ \A k \in DOMAIN index : \A v \in DOMAIN index[k] : v.tag \notin ListTags
  /\ \A p \in DOMAIN IndexPayloads :
       \A k \in ListFields(IndexPayloads[p]) :
         /\ query_exact(index, k, IndexPayloads[p][k]) = None
         /\ k \in ListOnlyFields =>
              /\ all_for_key(index, k) = None
              /\ \A e \in ElementsOf(IndexPayloads[p][k]) : query_exact(index, k, e) = None

\* the entries of the fields that hold a list in the payload are in index1 as
\* they are in index
ListFieldsKept(index, payload, index1) ==
  \A k \in ListFields(payload) :
    /\ k \in DOMAIN index1 <=> k \in DOMAIN index
    /\ k \in DOMAIN index => index1[k] = index[k]

\* C27: list values are never indexed: after a PayloadIndex.insert no entry
\* has a list as its value and the entries of the fields that hold a list in
\* the inserted payload are as before; query_exact with a list is None; for a
\* field that only ever held lists, query_exact with an element of the list
\* and all_for_key are None.
C27_ListsNotIndexed ==
  [][/\ ListsNotIndexed(payload_index')
     /\ eval'.op = "insert" => ListFieldsKept(payload_index, eval'.payload, payload_index')]_vars

\* a payload that holds a list under field a was inserted into an index that
\* holds scalars under a and under b
C27_Witness ==
  /\ eval.op = "insert"
  /\ "a" \in ListFields(eval.payload)
  /\ "a" \in DOMAIN payload_index
  /\ "b" \in DOMAIN payload_index

\* the list is in ascending order of sort key
BestFirst(points) ==
  \A k \in 1..(Len(points) - 1) : points[k].sort_key <= points[k + 1].sort_key

\* list r is the top_k entries of lowest sort key of list kept
LowestOf(r, kept, top_k) ==
  /\ Len(r) = IF Len(kept) < top_k THEN Len(kept) ELSE top_k
  /\ Range(r) \subseteq Range(kept)
  /\ \A sp \in Range(kept) \ Range(r) : \A k \in 1..Len(r) : r[k].sort_key <= sp.sort_key

\* C28: the list in_place_filtered_search returns is in ascending order of
\* sort key and is the top_k entries of lowest sort key among the points the
\* level-0 beam kept, which are the points the search returns when top_k is
\* the beam width ef.
C28_InPlaceBestFirst ==
  \A query \in Queries, top_k \in TopKs, fi \in DOMAIN FilterArgs, ord \in Orders(Seg) :
    \E r \in {in_place_filtered_search(query, top_k, hnsw, payloads, payload_index,
                                       FilterArgs[fi], deleted, ord)} :
      r.ok =>
        \E kept \in {in_place_filtered_search(query, Ef, hnsw, payloads, payload_index,
                                              FilterArgs[fi], deleted, ord)} :
          /\ kept.ok
          /\ BestFirst(r.val)
          /\ LowestOf(r.val, kept.val, top_k)

\* the list of in_place_filtered_search holds the same points whatever their
\* order: it is a truncation of the list returned for top_k = ef
C28_InPlaceTruncates ==
  \A query \in Queries, top_k \in TopKs, fi \in DOMAIN FilterArgs, ord \in Orders(Seg) :
    \E r \in {in_place_filtered_search(query, top_k, hnsw, payloads, payload_index,
                                       FilterArgs[fi], deleted, ord)} :
      r.ok =>
        \E kept \in {in_place_filtered_search(query, Ef, hnsw, payloads, payload_index,
                                              FilterArgs[fi], deleted, ord)} :
          /\ kept.ok
          /\ r.val = Take(kept.val, top_k)
          /\ \A k \in 1..(Len(kept.val) - 1) : kept.val[k].sort_key >= kept.val[k + 1].sort_key

\* the entry point of the index of segment s has no payload, or a payload the
\* filter evaluates to Ok(false) on
EntryFailsFilter(s, f) ==
  /\ s.hnsw.entry_point # None
  /\ \/ Unwrap(s.hnsw.entry_point) \notin DOMAIN s.payloads
     \/ evaluate_filter(f, s.payloads[Unwrap(s.hnsw.entry_point)]) = Ok(FALSE)

\* C29: when the entry point does not satisfy the filter and
\* find_entry_point_matching_filter finds no seed, in_place_filtered_search
\* returns Ok of the empty list.
C29_NoSeedReturnsEmpty ==
  \A query \in Queries, top_k \in TopKs, fi \in DOMAIN Filters, ord \in Orders(Seg) :
    (/\ EntryFailsFilter(Seg, Filters[fi])
     /\ find_entry_point_matching_filter(Filters[fi], payload_index, deleted, hnsw, ord) = None)
      => in_place_filtered_search(query, top_k, hnsw, payloads, payload_index,
                                  Some(Filters[fi]), deleted, ord) = Ok(<<>>)

\* what the code does in the case of C29: it searches from the entry point,
\* and the list it returns starts with a point reached from it, matching or
\* not
C29_NoSeedSearchesFromEntry ==
  \A query \in Queries, top_k \in TopKs, fi \in DOMAIN Filters, ord \in Orders(Seg) :
    (/\ EntryFailsFilter(Seg, Filters[fi])
     /\ find_entry_point_matching_filter(Filters[fi], payload_index, deleted, hnsw, ord) = None)
      => \E r \in {in_place_filtered_search(query, top_k, hnsw, payloads, payload_index,
                                            Some(Filters[fi]), deleted, ord)} :
           r.ok => Len(r.val) >= 1

\* C30: in every reachable state the entry point of the index is None exactly
\* when the segment has no live point, and otherwise it is a live id; so the
\* state a delete of the entry point leaves has a live entry point whenever a
\* live point is left.
C30_EntryPointLive ==
  /\ hnsw.entry_point = None <=> Live(Seg) = {}
  /\ hnsw.entry_point # None => Unwrap(hnsw.entry_point) \in Live(Seg)

\* point 1 was the entry point (point 2 has level 0 and was never promoted);
\* a delete tombstoned it and the entry point is now point 2
C30_Witness ==
  /\ ret.op = "delete"
  /\ ret.res.ok
  /\ 1 \in deleted
  /\ hnsw.entry_point = Some(2)
  /\ hnsw.levels[2] = 0

\* C31: whenever the segment has a live point, Segment.search with a query of
\* the right length and top_k >= 1 returns Ok with at least one result.
C31_SearchFindsALivePoint ==
  Live(Seg) # {} =>
    \A query \in Queries, top_k \in TopKs, ord \in Orders(Seg) :
      \E r \in {SegmentSearch(Seg, query, top_k, ord)} :
        /\ r.ok
        /\ Len(r.val) >= 1

\* the neighbours of point id at level 0 other than id itself
OtherNeighbors(h, id) ==
  IF layer_neighbors(h, 0, id) = None THEN {}
  ELSE Range(Unwrap(layer_neighbors(h, 0, id))) \ {id}

\* point 1, the first entry point, is tombstoned; a live point has neighbours
\* and all of them are tombstoned; Segment.search returns a result
C31_Witness ==
  /\ 1 \in deleted
  /\ \E id \in Live(Seg) :
       /\ OtherNeighbors(hnsw, id) # {}
       /\ OtherNeighbors(hnsw, id) \subseteq deleted
  /\ \E query \in Queries :
       \E r \in {SegmentSearch(Seg, query, 1, <<>>)} : r.ok /\ Len(r.val) = 1

\* C32: on an index built by inserts only that holds n <= ef points, search
\* returns min(top_k, n) results, for every query and top_k.
C32_SmallIndexFullyReturned ==
  (/\ tombstoned = {}
   /\ deleted = {}
   /\ Cardinality(DOMAIN hnsw.vectors) <= Ef) =>
    \A query \in Queries, top_k \in TopKs, ord \in Orders(Seg) :
      \E r \in {search(hnsw, query, top_k, ord)} :
        /\ r.ok
        /\ Len(r.val) = IF top_k < Cardinality(DOMAIN hnsw.vectors)
                        THEN top_k ELSE Cardinality(DOMAIN hnsw.vectors)

\* two points were inserted, none deleted, and search with top_k = 2 returns
\* both, whichever of them the query is nearer to
C32_Witness ==
  /\ tombstoned = {}
  /\ DOMAIN hnsw.vectors = {1, 2}
  /\ hnsw.vectors[1] # hnsw.vectors[2]
  /\ \A query \in Queries :
       \E r \in {search(hnsw, query, 2, <<>>)} : r.ok /\ Len(r.val) = 2

\* no id occurs twice in the list
NoDuplicates(list) == \A j, k \in 1..Len(list) : list[j] = list[k] => j = k

\* C33: in every reachable state no adjacency list of layers[0] holds the
\* same neighbour id twice, the point's own id included.
C33_EdgesDeduplicated ==
  0 \in DOMAIN hnsw.layers =>
    \A id \in DOMAIN hnsw.layers[0] : NoDuplicates(hnsw.layers[0][id])

\* C33 for the states in which no payload is stored: the lists HNSWIndex::insert
\* builds hold no id twice
C33_EdgesOfInsertDeduplicated ==
  (0 \in DOMAIN hnsw.layers /\ DOMAIN payloads = {}) =>
    \A id \in DOMAIN hnsw.layers[0] : NoDuplicates(hnsw.layers[0][id])

\* Segment::insert of a point with a payload up to the last loop of
\* build_filter_aware_edges: the segment s the builder is called on (the
\* point stored in the index, its payload stored and indexed) and
\* extra_neighbors without the point itself; ok is FALSE when the insert
\* returns Err before that
WithExtraNeighbors(s, point, level, ord, korder) ==
  LET p == Unwrap(point.payload)
      collected(s1, c) ==
        IF c.ok THEN [ok |-> TRUE, s |-> s1, extra |-> c.extra \ {s.next_id}]
        ELSE [ok |-> FALSE, s |-> s1, extra |-> {}]
      built(s1) ==
        collected(s1, CollectExtra(s1.hnsw, s.next_id,
                                   IF s1.hnsw.metric = "Cosine"
                                   THEN maybe_normalize(s1.hnsw.metric, point.vector)
                                   ELSE point.vector,
                                   p, s1.payload_index, s1.payloads, FilterKeys(p, korder),
                                   ord, {}))
      stored(ins) ==
        IF ins.ok
        THEN built([s EXCEPT !.hnsw = ins.h,
                             !.payload_index = PayloadIndexInsert(@, s.next_id, p),
                             !.payloads = MapInsert(@, s.next_id, p)])
        ELSE [ok |-> FALSE, s |-> s, extra |-> {}]
  IN stored(insert(s.hnsw, s.next_id, point.vector, level, ord))

\* every id of extra is stored in the index of s1, is not tombstoned, and has
\* a payload that holds, at a scalar field of p, the value p holds there
LinkedToMatching(s1, p, extra) ==
  \A n \in extra :
    /\ n \in DOMAIN s1.hnsw.vectors
    /\ n \notin s1.deleted \cup s1.hnsw.deleted
    /\ n \in DOMAIN s1.payloads
    /\ \E k \in IndexableKeys(p) :
         /\ k \in DOMAIN s1.payloads[n]
         /\ ValEq(s1.payloads[n][k], p[k])

\* C34: every neighbour other than the new point that the filter-aware edge
\* builder links to the new point is a key of vectors, is not tombstoned, and
\* has a stored payload that holds, at one of the new point's scalar fields,
\* the new point's value; for an insert of any point with a payload in any
\* reachable state.
C34_ExtraNeighborsMatch ==
  \A point \in {pt \in Points : pt.payload # None}, level \in Levels :
    \A ord \in Perms(Live(Seg) \cup {next_id}),
       korder \in KeyOrders(Range(point.payload)) :
      \E r \in {WithExtraNeighbors(Seg, point, level, ord, korder)} :
        r.ok => LinkedToMatching(r.s, Unwrap(point.payload), r.extra)

\* a live point and a tombstoned point both hold a = Int(1); an insert of a
\* third point with a = Int(1) gets an extra neighbour
C34_Witness ==
  /\ \E id \in deleted : id \in DOMAIN payloads /\ "a" \in DOMAIN payloads[id]
  /\ \E point \in {pt \in Points : pt.payload # None}, level \in Levels :
       \E r \in {WithExtraNeighbors(Seg, point, level, <<1, 2, 3>>, <<"a", "b">>)} :
         r.ok /\ r.extra # {}

\* the points of segment s whose payload holds the scalar value at field
Matching(s, field, value) ==
  {id \in DOMAIN s.payloads :
     /\ field \in DOMAIN s.payloads[id]
     /\ ValEq(s.payloads[id][field], value)}

\* the points of the set within reached from the set from along level 0 edges
\* that stay in within
RECURSIVE ReachedWithin(_, _, _)
ReachedWithin(h, within, from) ==
  LET step == from \cup {b \in within : \E a \in from : b \in OtherNeighbors(h, a)}
  IN IF step = from THEN from ELSE ReachedWithin(h, within, step)

\* the scalar values the stored payloads hold at field
ScalarsAt(s, field) ==
  {s.payloads[id][field] : id \in {i \in DOMAIN s.payloads :
     field \in DOMAIN s.payloads[i] /\ is_indexable(s.payloads[i][field])}}

\* C35: in a segment without tombstones, for every field and every scalar
\* value, the points holding that value at that field reach one another at
\* level 0 through points holding it too.
C35_MatchingSubgraphConnected ==
  (deleted = {} /\ hnsw.deleted = {}) =>
    \A field \in UNION {DOMAIN payloads[id] : id \in DOMAIN payloads} :
      \A value \in ScalarsAt(Seg, field) :
        \A a \in Matching(Seg, field, value) :
          ReachedWithin(hnsw, Matching(Seg, field, value), {a})
            = Matching(Seg, field, value)

\* the positions of the conditions that end the loop of an And (type "And")
\* or of an Or: those that fail, and those that yield false for an And, true
\* for an Or
Ending(type, conds, payload) ==
  {j \in DOMAIN conds :
     \/ ~ChildResult(conds, j, payload).ok
     \/ ChildResult(conds, j, payload).val = (type = "Or")}

\* C36: evaluate_filter evaluates the conditions of an And or an Or from left
\* to right and stops at the first that decides: the result is Ok(false) at
\* the first false condition of an And, Ok(true) at the first true condition
\* of an Or, whatever the later conditions yield; the error of a condition
\* reached before any deciding one is returned; with no such condition, and
\* for the empty list, an And is Ok(true) and an Or is Ok(false).
C36_AndOrShortCircuit ==
  (eval.op = "evaluate_filter" /\ eval.filter.type \in {"And", "Or"}) =>
    LET type == eval.filter.type
        conds == eval.filter.conds
        p == eval.payload
        ending == Ending(type, conds, p)
        first == CHOOSE j \in ending : \A k \in ending : j <= k
    IN IF ending = {} THEN eval.res = Ok(type = "And")
       ELSE IF ChildResult(conds, first, p).ok THEN eval.res = Ok(type = "Or")
       ELSE eval.res = ChildResult(conds, first, p)

\* an Or whose first condition is true and whose second fails returned
\* Ok(true)
C36_Witness ==
  /\ eval.op = "evaluate_filter"
  /\ eval.filter.type = "Or"
  /\ Len(eval.filter.conds) >= 2
  /\ ChildResult(eval.filter.conds, 1, eval.payload) = Ok(TRUE)
  /\ ~ChildResult(eval.filter.conds, 2, eval.payload).ok
  /\ eval.res = Ok(TRUE)

\* the ids the inverted index holds under (key, value)
IdsUnder(index, key, value) ==
  IF key \in DOMAIN index /\ value \in DOMAIN index[key] THEN index[key][value] ELSE {}

\* segment s1 is segment s but for the tombstone sets, the entries of
\* point_id in the inverted index and the entry point
OnlyTombstoned(s, point_id, s1) ==
  /\ s1.hnsw.vectors = s.hnsw.vectors
  /\ s1.hnsw.levels = s.hnsw.levels
  /\ s1.hnsw.layers = s.hnsw.layers
  /\ s1.hnsw.metric = s.hnsw.metric
  /\ s1.hnsw.current_max_level = s.hnsw.current_max_level
  /\ s1.payloads = s.payloads
  /\ s1.next_id = s.next_id
  /\ DOMAIN s1.payload_index \subseteq DOMAIN s.payload_index
  /\ \A k \in DOMAIN s.payload_index :
       /\ k \in DOMAIN s1.payload_index => DOMAIN s1.payload_index[k] \subseteq DOMAIN s.payload_index[k]
       /\ \A v \in DOMAIN s.payload_index[k] :
            IdsUnder(s1.payload_index, k, v) \in
              {s.payload_index[k][v], s.payload_index[k][v] \ {point_id}}

\* C37: a Segment.delete that does not trigger compaction removes nothing
\* from the graph: vectors, levels, every adjacency list of every layer, the
\* payload map and next_id are as before; only the two tombstone sets, the
\* inverted index entries of the deleted id and possibly the entry point
\* change.
C37_DeleteKeepsGraph ==
  [][\A point_id \in Ids \cup Live(Seg), korder \in KeyOrders(StoredPayloads(Seg)) :
       \A ord \in Perms(Live(Seg) \ {point_id}) :
         (/\ ~PurgeTriggered(SegmentTombstone(Seg, point_id, ord))
          /\ ret'.op = "delete"
          /\ Seg' = SegmentDelete(Seg, point_id, <<>>, ord, korder).s)
           => OnlyTombstoned(Seg, point_id, Seg')]_vars

\* after a delete a tombstoned point, no longer the entry point, is still
\* stored with its level, its payload and its adjacency list, and a live
\* point still lists it
C37_Witness ==
  /\ ret.op = "delete"
  /\ \E id \in deleted \cap hnsw.deleted :
       /\ hnsw.entry_point # Some(id)
       /\ id \in DOMAIN hnsw.vectors /\ id \in DOMAIN hnsw.levels
       /\ id \in DOMAIN payloads
       /\ layer_neighbors(hnsw, 0, id) # None
       /\ \E other \in Live(Seg) : id \in OtherNeighbors(hnsw, other)

\* C38: after any sequence of insert, delete and purge every tombstoned id is
\* a key of the vectors of the HNSW index, so hnsw.len() - deleted.len() does
\* not underflow and is the number of live points.
C38_TombstonesStored ==
  /\ deleted \subseteq DOMAIN hnsw.vectors
  /\ TotalNonDeleted(Seg) >= 0
  /\ TotalNonDeleted(Seg) = Cardinality({id \in DOMAIN hnsw.vectors : id \notin deleted})

\* two points are stored, a delete tombstoned one of them, and the difference
\* of the counts is 1
C38_Witness ==
  /\ ret.op = "delete"
  /\ Cardinality(DOMAIN hnsw.vectors) = 2
  /\ Cardinality(deleted) = 1
  /\ TotalNonDeleted(Seg) = 1

\* the ids that have an adjacency list in layer level of index h
LayerIds(h, level) == IF level \in DOMAIN h.layers THEN DOMAIN h.layers[level] ELSE {}

\* id b is in the adjacency list of id a in layer level
Listed(h, level, a, b) ==
  a \in LayerIds(h, level) /\ Contains(h.layers[level][a], b)

\* C39: in every reachable state and at every level, b is in the adjacency
\* list of a if and only if a is in the adjacency list of b.
C39_AdjacencySymmetric ==
  \A level \in DOMAIN hnsw.layers :
    \A a \in LayerIds(hnsw, level) :
      \A b \in Range(hnsw.layers[level][a]) : Listed(hnsw, level, b, a)

\* the point inserted last has more than M other neighbours at level 0, so
\* one of them was linked by a filter-aware edge alone, and each of them
\* lists the point
C39_Witness ==
  /\ next_id - 1 \in Live(Seg)
  /\ Cardinality(OtherNeighbors(hnsw, next_id - 1)) > M
  /\ \A b \in OtherNeighbors(hnsw, next_id - 1) : Listed(hnsw, 0, b, next_id - 1)

\* C40: no point appears in a layer above its assigned level: an id has an
\* adjacency list in layers[l] only if l <= levels[id].
C40_NoLayerAboveLevel ==
  \A level \in DOMAIN hnsw.layers :
    \A id \in LayerIds(hnsw, level) :
      id \in DOMAIN hnsw.levels /\ level <= hnsw.levels[id]

====
